---- MODULE Spec2Model ----
(***************************************************************************)
(* A model of the auto_trade position manager, the backtest and live      *)
(* drivers, the backtest executor and the pure helpers they use.           *)
(*                                                                         *)
(* Python values are modelled as follows:                                  *)
(*   - an optional int is an integer or None (a sentinel outside every     *)
(*     price range of the model);                                          *)
(*   - an optional object is the empty sequence <<>> (None) or <<obj>>;    *)
(*   - a dict is a function whose DOMAIN is its set of keys;               *)
(*   - a KBarList is abstracted to the features the code reads from it     *)
(*     (length, latest bar time, extremes of the last 31 bars, the MACD    *)
(*     crosses the indicator service reports, the momentum counters);      *)
(*   - a raised exception is the field raised = TRUE of a call's result.   *)
(***************************************************************************)
EXTENDS Integers, Sequences, FiniteSets, TLC

VARIABLES
    config,      \* PositionManagerConfig of the unit (fixed after construction)
    pm,          \* PositionManager: position, _last_fast_stop_check_kbar_time
    next_uuid,   \* source of fresh position ids (uuid4)
    drv,         \* the driver's local state (backtest or live loop)
    executor,    \* BacktestExecutor / live executor state
    fn,          \* input and output of a pure function under check
    strategy     \* the strategy object of a unit: its parameters and fields

vars == <<config, pm, next_uuid, drv, executor, fn, strategy>>

\* ------------------------------------------------------------------ bounds

PriceBase == 200
PriceSpan == 5
MaxPositions == 1
MaxKBarTime == 2

Prices == PriceBase..(PriceBase + PriceSpan)

\* ------------------------------------------------------------ Python values

None == -1000

Get(d, k, default) == IF k \in DOMAIN d THEN d[k] ELSE default

Put(d, k, v) == [x \in (DOMAIN d) \cup {k} |-> IF x = k THEN v ELSE d[x]]

EmptyDict == [x \in {} |-> None]

\* models/position_record.py: the ExitReason enum every module imports
ExitReason ==
    [TRAILING_STOP |-> "TS", TAKE_PROFIT |-> "TP", STOP_LOSS |-> "SL",
     HOLD |-> "Hold", FAST_STOP |-> "FS"]

\* attribute access ExitReason.<name>: AttributeError unless a member
HasMember(name) == name \in DOMAIN ExitReason

ExitReasonValues == {ExitReason[n] : n \in DOMAIN ExitReason}

\* utils/points.py; a rate is modelled in permille (None when absent)
calculate_points(base_points, rate, reference_price) ==
    IF rate /= None /\ reference_price /= None
    THEN (reference_price * rate) \div 1000
    ELSE base_points

\* ------------------------------------------------------ models/position.py

ExitRule(sl, tp, start_ts, tighten_after, tightened_pts) ==
    [stop_loss_price |-> sl,
     take_profit_price |-> tp,
     trailing_stop_active |-> FALSE,
     start_trailing_stop_price |-> start_ts,
     trailing_stop_price |-> None,
     tighten_after_price |-> tighten_after,
     tightened_trailing_stop_points |-> tightened_pts,
     is_tightened |-> FALSE]

PositionLeg(leg_id, leg_type, quantity, exit_rule) ==
    [leg_id |-> leg_id, leg_type |-> leg_type, quantity |-> quantity,
     exit_rule |-> exit_rule, status |-> "OPEN",
     exit_price |-> None, exit_time |-> None, exit_reason |-> "None"]

NoLeg == <<>>

OrderAction(action, quantity, order_type, leg_id, metadata) ==
    [action |-> action, quantity |-> quantity, order_type |-> order_type,
     leg_id |-> leg_id, metadata |-> metadata]

\* indices of the legs still open, in insertion order
open_legs(pos) == {k \in 1..Len(pos.legs) : pos.legs[k].status = "OPEN"}

RECURSIVE SumQuantity(_, _)
SumQuantity(legs, idxs) ==
    IF idxs = {} THEN 0
    ELSE LET k == CHOOSE x \in idxs : TRUE
         IN legs[k].quantity + SumQuantity(legs, idxs \ {k})

open_quantity(pos) == SumQuantity(pos.legs, open_legs(pos))

update_price_tracking(pos, current_price) ==
    [pos EXCEPT
        !.highest_price = IF current_price > @ THEN current_price ELSE @,
        !.lowest_price = IF current_price < @ THEN current_price ELSE @]

\* close_leg without the test of the leg's status
close_leg_any_status(pos, leg_id, exit_price, exit_time, exit_reason) ==
    LET hits == {k \in DOMAIN pos.legs : pos.legs[k].leg_id = leg_id}
        legs1 ==
            IF hits = {} THEN pos.legs
            ELSE LET k == CHOOSE x \in hits : \A y \in hits : x <= y
                 IN [pos.legs EXCEPT ![k] =
                        [@ EXCEPT !.status = "CLOSED",
                                  !.exit_price = exit_price,
                                  !.exit_time = exit_time,
                                  !.exit_reason = exit_reason]]
        pos1 == [pos EXCEPT !.legs = legs1]
    IN  IF open_legs(pos1) = {}
        THEN [pos1 EXCEPT !.status = "CLOSED"]
        ELSE IF Cardinality(open_legs(pos1)) < Len(pos1.legs)
             THEN [pos1 EXCEPT !.status = "PARTIALLY_CLOSED"]
             ELSE pos1

close_leg(pos, leg_id, exit_price, exit_time, exit_reason) ==
    LET hits == {k \in open_legs(pos) : pos.legs[k].leg_id = leg_id}
        legs1 ==
            IF hits = {} THEN pos.legs
            ELSE LET k == CHOOSE x \in hits : \A y \in hits : x <= y
                 IN [pos.legs EXCEPT ![k] =
                        [@ EXCEPT !.status = "CLOSED",
                                  !.exit_price = exit_price,
                                  !.exit_time = exit_time,
                                  !.exit_reason = exit_reason]]
        pos1 == [pos EXCEPT !.legs = legs1]
    IN  IF open_legs(pos1) = {}
        THEN [pos1 EXCEPT !.status = "CLOSED"]
        ELSE IF Cardinality(open_legs(pos1)) < Len(pos1.legs)
             THEN [pos1 EXCEPT !.status = "PARTIALLY_CLOSED"]
             ELSE pos1

\* ------------------------------------------- services/position_manager.py

has_tightened_trailing_stop(cfg) ==
    /\ (cfg.tighten_after_points /= None \/ cfg.tighten_after_points_rate /= None)
    /\ (cfg.tightened_trailing_stop_points /= None
        \/ cfg.tightened_trailing_stop_points_rate /= None)

NewPositionManager(has_indicator_service) ==
    [position |-> <<>>,
     last_fast_stop_check_kbar_time |-> None,
     indicator_service |-> has_indicator_service]

has_position(m) == m.position /= <<>> /\ m.position[1].status /= "CLOSED"

_is_long(m) == m.position /= <<>> /\ m.position[1].direction = "Buy"

_close_action(m) == IF _is_long(m) THEN "Sell" ELSE "Buy"

_calculate_initial_stop_loss(cfg, kbar_list, entry_price, direction) ==
    LET stop_loss_points ==
            calculate_points(cfg.stop_loss_points, cfg.stop_loss_points_rate,
                             entry_price)
    IN  IF kbar_list.len >= 31
        THEN IF direction = "Buy"
             THEN kbar_list.min_low31 - stop_loss_points
             ELSE kbar_list.max_high31 + stop_loss_points
        ELSE IF direction = "Buy"
             THEN entry_price - stop_loss_points
             ELSE entry_price + stop_loss_points

_open_position(m, cfg, signal, kbar_list, direction, position_id) ==
    LET entry_price == signal.price
        long == direction = "Buy"
        meta == signal.metadata
        stop_loss_price ==
            IF "override_stop_loss_price" \in DOMAIN meta
            THEN meta["override_stop_loss_price"]
            ELSE IF "override_stop_loss_distance" \in DOMAIN meta
                 THEN IF long
                      THEN entry_price - meta["override_stop_loss_distance"]
                      ELSE entry_price + meta["override_stop_loss_distance"]
                 ELSE _calculate_initial_stop_loss(cfg, kbar_list, entry_price,
                                                   direction)
        tp_pts ==
            IF "override_take_profit_points" \in DOMAIN meta
            THEN meta["override_take_profit_points"]
            ELSE calculate_points(cfg.take_profit_points,
                                  cfg.take_profit_points_rate, entry_price)
        take_profit_price ==
            IF long THEN entry_price + tp_pts ELSE entry_price - tp_pts
        start_ts_pts ==
            IF "override_start_trailing_stop_points" \in DOMAIN meta
            THEN meta["override_start_trailing_stop_points"]
            ELSE cfg.start_trailing_stop_points
        start_trailing_stop_price ==
            IF long THEN entry_price + start_ts_pts
            ELSE entry_price - start_ts_pts
        tighten_after_pts ==
            calculate_points(cfg.tighten_after_points,
                             cfg.tighten_after_points_rate, entry_price)
        tighten_after_price ==
            IF has_tightened_trailing_stop(cfg)
            THEN IF long THEN entry_price + tighten_after_pts
                 ELSE entry_price - tighten_after_pts
            ELSE None
        tightened_ts_points ==
            IF has_tightened_trailing_stop(cfg)
            THEN calculate_points(cfg.tightened_trailing_stop_points,
                                  cfg.tightened_trailing_stop_points_rate,
                                  entry_price)
            ELSE None
        tp_legs ==
            IF cfg.tp_leg_quantity > 0
            THEN << PositionLeg(<<position_id, "TP">>, "TP", cfg.tp_leg_quantity,
                        ExitRule(stop_loss_price, take_profit_price,
                                 start_trailing_stop_price, tighten_after_price,
                                 tightened_ts_points)) >>
            ELSE << >>
        ts_legs ==
            IF cfg.ts_leg_quantity > 0
            THEN << PositionLeg(<<position_id, "TS">>, "TS", cfg.ts_leg_quantity,
                        ExitRule(stop_loss_price, None,
                                 start_trailing_stop_price, tighten_after_price,
                                 tightened_ts_points)) >>
            ELSE << >>
        md1 ==
            IF "override_trailing_stop_points" \in DOMAIN meta
            THEN Put(EmptyDict, "override_trailing_stop_points",
                     meta["override_trailing_stop_points"])
            ELSE EmptyDict
        md2 ==
            IF "key_levels" \in DOMAIN meta
            THEN LET a == Put(md1, "key_levels", meta["key_levels"])
                     b == Put(a, "key_level_buffer",
                              Get(meta, "key_level_buffer", 10))
                     c == Put(b, "next_key_level_idx", 0)
                 IN  IF "key_level_min_profit" \in DOMAIN meta
                     THEN Put(c, "key_level_min_profit",
                              meta["key_level_min_profit"])
                     ELSE c
            ELSE md1
        md3 ==
            IF Get(meta, "use_momentum_exit", FALSE)
            THEN LET a == Put(md2, "use_momentum_exit", TRUE)
                     b == Put(a, "momentum_min_profit",
                              Get(meta, "momentum_min_profit", 0))
                     c == Put(b, "momentum_lookback",
                              Get(meta, "momentum_lookback", 5))
                 IN  Put(c, "momentum_min_weak_bars",
                         Get(meta, "momentum_min_weak_bars", 3))
            ELSE md2
        position ==
            [position_id |-> position_id,
             direction |-> direction,
             total_quantity |-> cfg.total_quantity,
             entry_price |-> entry_price,
             status |-> "OPEN",
             legs |-> tp_legs \o ts_legs,
             highest_price |-> entry_price,
             lowest_price |-> entry_price,
             is_in_macd_adverse_cross |-> FALSE,
             metadata |-> md3]
    IN  [pm |-> [m EXCEPT !.position = <<position>>],
         actions |-> << OrderAction(direction, cfg.total_quantity, "Open",
                                    NoLeg, EmptyDict) >>,
         raised |-> FALSE]

\* on_signal without the test of has_position
on_signal_while_holding(m, cfg, signal, kbar_list, position_id) ==
    IF signal.signal_type = "ENTRY_LONG"
    THEN _open_position(m, cfg, signal, kbar_list, "Buy", position_id)
    ELSE IF signal.signal_type = "ENTRY_SHORT"
         THEN _open_position(m, cfg, signal, kbar_list, "Sell", position_id)
         ELSE [pm |-> m, actions |-> << >>, raised |-> FALSE]

on_signal(m, cfg, signal, kbar_list, position_id) ==
    IF signal.signal_type = "ENTRY_LONG" /\ ~has_position(m)
    THEN _open_position(m, cfg, signal, kbar_list, "Buy", position_id)
    ELSE IF signal.signal_type = "ENTRY_SHORT" /\ ~has_position(m)
         THEN _open_position(m, cfg, signal, kbar_list, "Sell", position_id)
         ELSE [pm |-> m, actions |-> << >>, raised |-> FALSE]

\* _check_leg_exit with the trailing stop tested before the stop-loss
_check_leg_exit_trailing_first(m, leg, current_price) ==
    LET exit_rule == leg.exit_rule
        long == _is_long(m)
        sl_hit ==
            /\ exit_rule.stop_loss_price /= None
            /\ IF long THEN current_price <= exit_rule.stop_loss_price
               ELSE current_price >= exit_rule.stop_loss_price
        ts_hit ==
            /\ exit_rule.trailing_stop_active
            /\ exit_rule.trailing_stop_price /= None
            /\ IF long THEN current_price <= exit_rule.trailing_stop_price
               ELSE current_price >= exit_rule.trailing_stop_price
        close(reason, trigger) ==
            << OrderAction(_close_action(m), leg.quantity, "Close", leg.leg_id,
                           [exit_reason |-> ExitReason[reason],
                            trigger_price |-> trigger]) >>
    IN  IF m.position = <<>> \/ leg.status /= "OPEN" THEN << >>
        ELSE IF ts_hit THEN close("TRAILING_STOP", exit_rule.trailing_stop_price)
        ELSE IF sl_hit THEN close("STOP_LOSS", exit_rule.stop_loss_price)
        ELSE << >>

\* the Close order of one leg, or no order: a sequence of length 0 or 1
_check_leg_exit(m, leg, current_price) ==
    LET exit_rule == leg.exit_rule
        long == _is_long(m)
        sl_hit ==
            /\ exit_rule.stop_loss_price /= None
            /\ IF long THEN current_price <= exit_rule.stop_loss_price
               ELSE current_price >= exit_rule.stop_loss_price
        ts_hit ==
            /\ exit_rule.trailing_stop_active
            /\ exit_rule.trailing_stop_price /= None
            /\ IF long THEN current_price <= exit_rule.trailing_stop_price
               ELSE current_price >= exit_rule.trailing_stop_price
        tp_hit ==
            /\ leg.leg_type = "TP"
            /\ exit_rule.take_profit_price /= None
            /\ IF long THEN current_price >= exit_rule.take_profit_price
               ELSE current_price <= exit_rule.take_profit_price
        close(reason, trigger) ==
            << OrderAction(_close_action(m), leg.quantity, "Close", leg.leg_id,
                           [exit_reason |-> ExitReason[reason],
                            trigger_price |-> trigger]) >>
    IN  IF m.position = <<>> \/ leg.status /= "OPEN" THEN << >>
        ELSE IF sl_hit THEN close("STOP_LOSS", exit_rule.stop_loss_price)
        ELSE IF ts_hit THEN close("TRAILING_STOP", exit_rule.trailing_stop_price)
        ELSE IF tp_hit THEN close("TAKE_PROFIT", exit_rule.take_profit_price)
        ELSE << >>

\* the distance without regard to is_tightened
_get_trailing_stop_points_untightened(m, cfg, exit_rule) ==
    IF /\ m.position /= <<>>
       /\ Get(m.position[1].metadata, "override_trailing_stop_points", None)
              /= None
    THEN m.position[1].metadata["override_trailing_stop_points"]
    ELSE calculate_points(cfg.trailing_stop_points,
                          cfg.trailing_stop_points_rate,
                          m.position[1].entry_price)

_get_trailing_stop_points(m, cfg, exit_rule) ==
    IF exit_rule.is_tightened /\ exit_rule.tightened_trailing_stop_points /= None
    THEN exit_rule.tightened_trailing_stop_points
    ELSE IF /\ m.position /= <<>>
            /\ Get(m.position[1].metadata, "override_trailing_stop_points", None)
                   /= None
         THEN m.position[1].metadata["override_trailing_stop_points"]
         ELSE calculate_points(cfg.trailing_stop_points,
                               cfg.trailing_stop_points_rate,
                               m.position[1].entry_price)

\* an `if` in place of the while: at most one level per price update
KeyLevelLoopOnce(legs, key_levels, idx, buffer, current_price, long) ==
    IF idx < Len(key_levels)
       /\ (IF long THEN current_price > key_levels[idx + 1]
           ELSE current_price < key_levels[idx + 1])
    THEN [legs |->
            [k \in 1..Len(legs) |->
                IF legs[k].status = "OPEN"
                THEN [legs[k] EXCEPT
                        !.exit_rule.trailing_stop_active = TRUE,
                        !.exit_rule.trailing_stop_price =
                            IF long THEN key_levels[idx + 1] - buffer
                            ELSE key_levels[idx + 1] + buffer]
                ELSE legs[k]],
          idx |-> idx + 1]
    ELSE [legs |-> legs, idx |-> idx]

\* the while loop over the key levels the price has crossed
RECURSIVE KeyLevelLoop(_, _, _, _, _, _)
KeyLevelLoop(legs, key_levels, idx, buffer, current_price, long) ==
    IF idx < Len(key_levels)
    THEN LET next_level == key_levels[idx + 1]
             crossed == IF long THEN current_price > next_level
                        ELSE current_price < next_level
             stop_price == IF long THEN next_level - buffer
                           ELSE next_level + buffer
             legs1 ==
                [k \in 1..Len(legs) |->
                    IF legs[k].status = "OPEN"
                    THEN [legs[k] EXCEPT
                            !.exit_rule.trailing_stop_active = TRUE,
                            !.exit_rule.trailing_stop_price =
                                IF @ = None
                                   \/ (long /\ stop_price > @)
                                   \/ (~long /\ stop_price < @)
                                THEN stop_price ELSE @]
                    ELSE legs[k]]
         IN  IF crossed
             THEN KeyLevelLoop(legs1, key_levels, idx + 1, buffer,
                               current_price, long)
             ELSE [legs |-> legs, idx |-> idx]
    ELSE [legs |-> legs, idx |-> idx]

\* after every key level is broken: distance = int(entry_price * 0.005)
DynamicTrailingUpdate(exit_rule, entry_price, current_price, long) ==
    LET dynamic_ts == (entry_price * 5) \div 1000
        new_stop == IF long THEN current_price - dynamic_ts
                    ELSE current_price + dynamic_ts
    IN  IF ~exit_rule.trailing_stop_active THEN exit_rule
        ELSE IF \/ exit_rule.trailing_stop_price = None
                \/ (long /\ new_stop > exit_rule.trailing_stop_price)
                \/ (~long /\ new_stop < exit_rule.trailing_stop_price)
             THEN [exit_rule EXCEPT !.trailing_stop_price = new_stop]
             ELSE exit_rule

\* the standard rules with a stop that follows the price in both directions
StandardTrailingFollow(m, cfg, exit_rule, current_price, long) ==
    LET ts_points == _get_trailing_stop_points(m, cfg, exit_rule)
        new_stop_price == IF long THEN current_price - ts_points
                          ELSE current_price + ts_points
        should_activate ==
            IF long THEN current_price >= exit_rule.start_trailing_stop_price
            ELSE current_price <= exit_rule.start_trailing_stop_price
    IN  IF exit_rule.start_trailing_stop_price = None THEN exit_rule
        ELSE IF ~exit_rule.trailing_stop_active
        THEN IF should_activate
             THEN [exit_rule EXCEPT !.trailing_stop_active = TRUE,
                                    !.trailing_stop_price = new_stop_price]
             ELSE exit_rule
        ELSE [exit_rule EXCEPT !.trailing_stop_price = new_stop_price]

\* the standard rules for one open leg: activate, tighten, or follow
StandardTrailingUpdate(m, cfg, exit_rule, current_price, long) ==
    IF exit_rule.start_trailing_stop_price = None THEN exit_rule
    ELSE IF ~exit_rule.trailing_stop_active
    THEN LET should_activate ==
                IF long THEN current_price >= exit_rule.start_trailing_stop_price
                ELSE current_price <= exit_rule.start_trailing_stop_price
             ts_points == _get_trailing_stop_points(m, cfg, exit_rule)
         IN  IF should_activate
             THEN [exit_rule EXCEPT
                     !.trailing_stop_active = TRUE,
                     !.trailing_stop_price =
                         IF long THEN current_price - ts_points
                         ELSE current_price + ts_points]
             ELSE exit_rule
    ELSE LET can_tighten ==
                /\ ~exit_rule.is_tightened
                /\ exit_rule.tighten_after_price /= None
                /\ exit_rule.tightened_trailing_stop_points /= None
             should_tighten ==
                IF long THEN current_price >= exit_rule.tighten_after_price
                ELSE current_price <= exit_rule.tighten_after_price
             tight_stop ==
                IF long
                THEN current_price - exit_rule.tightened_trailing_stop_points
                ELSE current_price + exit_rule.tightened_trailing_stop_points
             ts_points == _get_trailing_stop_points(m, cfg, exit_rule)
             new_stop_price == IF long THEN current_price - ts_points
                               ELSE current_price + ts_points
         IN  IF can_tighten /\ should_tighten
             THEN [exit_rule EXCEPT
                     !.is_tightened = TRUE,
                     !.trailing_stop_price =
                         IF \/ (long /\ (@ = None \/ tight_stop > @))
                            \/ (~long /\ (@ = None \/ tight_stop < @))
                         THEN tight_stop ELSE @]
             ELSE IF \/ exit_rule.trailing_stop_price = None
                     \/ (long /\ new_stop_price > exit_rule.trailing_stop_price)
                     \/ (~long /\ new_stop_price < exit_rule.trailing_stop_price)
                  THEN [exit_rule EXCEPT !.trailing_stop_price = new_stop_price]
                  ELSE exit_rule

\* the position after _update_trailing_stops(current_price)
_update_trailing_stops(m, cfg, current_price) ==
    LET pos == m.position[1]
        long == _is_long(m)
        md == pos.metadata
        has_levels == "key_levels" \in DOMAIN md
        min_profit == Get(md, "key_level_min_profit", 0)
        unrealized == IF long THEN current_price - pos.entry_price
                      ELSE pos.entry_price - current_price
        key_level_mode ==
            has_levels /\ ~(min_profit > 0 /\ unrealized < min_profit)
        loop == KeyLevelLoop(pos.legs, md["key_levels"],
                             Get(md, "next_key_level_idx", 0),
                             Get(md, "key_level_buffer", 10),
                             current_price, long)
        pos1 == [pos EXCEPT !.legs = loop.legs,
                            !.metadata = Put(md, "next_key_level_idx", loop.idx)]
    IN  IF key_level_mode
        THEN IF loop.idx < Len(md["key_levels"])
             THEN pos1
             ELSE [pos1 EXCEPT !.legs =
                     [k \in 1..Len(pos1.legs) |->
                         IF pos1.legs[k].status = "OPEN"
                         THEN [pos1.legs[k] EXCEPT !.exit_rule =
                                 DynamicTrailingUpdate(@, pos.entry_price,
                                                       current_price, long)]
                         ELSE pos1.legs[k]]]
        ELSE [pos EXCEPT !.legs =
                [k \in 1..Len(pos.legs) |->
                    IF pos.legs[k].status = "OPEN"
                    THEN [pos.legs[k] EXCEPT !.exit_rule =
                            StandardTrailingUpdate(m, cfg, @, current_price, long)]
                    ELSE pos.legs[k]]]

\* the Close-all order for the legs still open (none when nothing is open)
\* a close-all that names only the first open leg
_close_all_legs_first_only(m, current_price, exit_reason) ==
    LET pos == m.position[1]
        first == CHOOSE k \in open_legs(pos) : \A n \in open_legs(pos) : k <= n
    IN  IF m.position = <<>> \/ open_legs(pos) = {} THEN << >>
        ELSE << OrderAction(_close_action(m), open_quantity(pos), "Close",
                            NoLeg,
                            [exit_reason |-> exit_reason,
                             leg_ids |-> << pos.legs[first].leg_id >>]) >>

_close_all_legs(m, current_price, exit_reason) ==
    LET pos == m.position[1]
        total_close_quantity == open_quantity(pos)
        ids == [k \in 1..Len(pos.legs) |-> pos.legs[k].leg_id]
        leg_ids == SelectSeq(ids,
                      LAMBDA id : \E k \in open_legs(pos) : pos.legs[k].leg_id = id)
    IN  IF m.position = <<>> THEN << >>
        ELSE IF total_close_quantity > 0
        THEN << OrderAction(_close_action(m), total_close_quantity, "Close",
                            NoLeg,
                            [exit_reason |-> exit_reason, leg_ids |-> leg_ids]) >>
        ELSE << >>

\* [pm, triggered]: the manager after the check and whether FastStop fires
\* the evaluation without the memory of the bar it last ran on
_check_macd_fast_stop_every_call(m, cfg, current_price, kbar_list) ==
    LET pos == m.position[1]
        long == _is_long(m)
        current_profit == IF long THEN current_price - pos.entry_price
                          ELSE pos.entry_price - current_price
        stop_loss_threshold ==
            calculate_points(cfg.stop_loss_points, cfg.stop_loss_points_rate,
                             pos.entry_price)
        m1 == [m EXCEPT !.last_fast_stop_check_kbar_time = kbar_list.time]
        any_trailing_active ==
            \E k \in open_legs(pos) : pos.legs[k].exit_rule.trailing_stop_active
        loss_reached == ~any_trailing_active
                        /\ current_profit < -stop_loss_threshold
        is_adverse_cross == IF long THEN kbar_list.death_cross
                            ELSE kbar_list.golden_cross
        is_favorable_cross == IF long THEN kbar_list.golden_cross
                              ELSE kbar_list.death_cross
    IN  IF m.position = <<>> \/ ~m.indicator_service
        THEN [pm |-> m, triggered |-> FALSE]
        ELSE IF kbar_list.len < 35
        THEN [pm |-> m, triggered |-> FALSE]
        ELSE IF pos.is_in_macd_adverse_cross /\ loss_reached
        THEN [pm |-> m1, triggered |-> TRUE]
        ELSE IF is_adverse_cross
        THEN [pm |-> [m1 EXCEPT !.position[1].is_in_macd_adverse_cross = TRUE],
              triggered |-> loss_reached]
        ELSE IF is_favorable_cross
        THEN [pm |-> [m1 EXCEPT !.position[1].is_in_macd_adverse_cross = FALSE],
              triggered |-> FALSE]
        ELSE [pm |-> m1, triggered |-> FALSE]

\* the evaluation that fires on a loss equal to the threshold and whatever the
\* trailing stops of the legs
_check_macd_fast_stop_at_threshold(m, cfg, current_price, kbar_list) ==
    LET pos == m.position[1]
        long == _is_long(m)
        current_profit == IF long THEN current_price - pos.entry_price
                          ELSE pos.entry_price - current_price
        stop_loss_threshold ==
            calculate_points(cfg.stop_loss_points, cfg.stop_loss_points_rate,
                             pos.entry_price)
        m1 == [m EXCEPT !.last_fast_stop_check_kbar_time = kbar_list.time]
        loss_reached == current_profit <= -stop_loss_threshold
        is_adverse_cross == IF long THEN kbar_list.death_cross
                            ELSE kbar_list.golden_cross
        is_favorable_cross == IF long THEN kbar_list.golden_cross
                              ELSE kbar_list.death_cross
    IN  IF m.position = <<>> \/ ~m.indicator_service
        THEN [pm |-> m, triggered |-> FALSE]
        ELSE IF kbar_list.len < 35
        THEN [pm |-> m, triggered |-> FALSE]
        ELSE IF m.last_fast_stop_check_kbar_time = kbar_list.time
        THEN [pm |-> m, triggered |-> FALSE]
        ELSE IF pos.is_in_macd_adverse_cross /\ loss_reached
        THEN [pm |-> m1, triggered |-> TRUE]
        ELSE IF is_adverse_cross
        THEN [pm |-> [m1 EXCEPT !.position[1].is_in_macd_adverse_cross = TRUE],
              triggered |-> loss_reached]
        ELSE IF is_favorable_cross
        THEN [pm |-> [m1 EXCEPT !.position[1].is_in_macd_adverse_cross = FALSE],
              triggered |-> FALSE]
        ELSE [pm |-> m1, triggered |-> FALSE]

_check_macd_fast_stop(m, cfg, current_price, kbar_list) ==
    LET pos == m.position[1]
        long == _is_long(m)
        current_profit == IF long THEN current_price - pos.entry_price
                          ELSE pos.entry_price - current_price
        stop_loss_threshold ==
            calculate_points(cfg.stop_loss_points, cfg.stop_loss_points_rate,
                             pos.entry_price)
        m1 == [m EXCEPT !.last_fast_stop_check_kbar_time = kbar_list.time]
        any_trailing_active ==
            \E k \in open_legs(pos) : pos.legs[k].exit_rule.trailing_stop_active
        loss_reached == ~any_trailing_active
                        /\ current_profit < -stop_loss_threshold
        is_adverse_cross == IF long THEN kbar_list.death_cross
                            ELSE kbar_list.golden_cross
        is_favorable_cross == IF long THEN kbar_list.golden_cross
                              ELSE kbar_list.death_cross
    IN  IF m.position = <<>> \/ ~m.indicator_service
        THEN [pm |-> m, triggered |-> FALSE]
        ELSE IF kbar_list.len < 35
        THEN [pm |-> m, triggered |-> FALSE]
        ELSE IF m.last_fast_stop_check_kbar_time = kbar_list.time
        THEN [pm |-> m, triggered |-> FALSE]
        ELSE IF pos.is_in_macd_adverse_cross /\ loss_reached
        THEN [pm |-> m1, triggered |-> TRUE]
        ELSE IF is_adverse_cross
        THEN [pm |-> [m1 EXCEPT !.position[1].is_in_macd_adverse_cross = TRUE],
              triggered |-> loss_reached]
        ELSE IF is_favorable_cross
        THEN [pm |-> [m1 EXCEPT !.position[1].is_in_macd_adverse_cross = FALSE],
              triggered |-> FALSE]
        ELSE [pm |-> m1, triggered |-> FALSE]

\* [pm, result]: the manager after the check and whether momentum is exhausted
_check_momentum_exhaustion(m, current_price, kbar_list) ==
    LET pos == m.position[1]
        meta == pos.metadata
        long == _is_long(m)
        min_profit == Get(meta, "momentum_min_profit", 0)
        unrealized == IF long THEN current_price - pos.entry_price
                      ELSE pos.entry_price - current_price
        lookback == Get(meta, "momentum_lookback", 5)
        last_check == Get(meta, "_last_momentum_check_time", None)
        m1 == [m EXCEPT !.position[1].metadata =
                  Put(meta, "_last_momentum_check_time", kbar_list.time)]
        consecutive_weak == kbar_list.consecutive_weak
        shrinking == kbar_list.shrinking
        min_weak_bars == Get(meta, "momentum_min_weak_bars", 3)
    IN  IF m.position = <<>> \/ ~m.indicator_service
        THEN [pm |-> m, result |-> FALSE]
        ELSE IF ~Get(meta, "use_momentum_exit", FALSE)
        THEN [pm |-> m, result |-> FALSE]
        ELSE IF unrealized < min_profit
        THEN [pm |-> m, result |-> FALSE]
        ELSE IF kbar_list.len < lookback + 2
        THEN [pm |-> m, result |-> FALSE]
        ELSE IF last_check = kbar_list.time
        THEN [pm |-> m, result |-> FALSE]
        ELSE IF consecutive_weak >= min_weak_bars
        THEN [pm |-> m1, result |-> TRUE]
        ELSE IF shrinking >= lookback - 2 /\ consecutive_weak >= 2
        THEN [pm |-> m1, result |-> TRUE]
        ELSE [pm |-> m1, result |-> FALSE]

\* the Close orders of the open legs, in insertion order
RECURSIVE LegExits(_, _, _)
LegExits(m, k, current_price) ==
    IF k > Len(m.position[1].legs) THEN << >>
    ELSE _check_leg_exit(m, m.position[1].legs[k], current_price)
         \o LegExits(m, k + 1, current_price)

\* ExitReason.<member> evaluated, then _close_all_legs: AttributeError when
\* the enum has no such member
CloseAll(m, current_price, member) ==
    IF HasMember(member)
    THEN [pm |-> m,
          actions |-> _close_all_legs(m, current_price, ExitReason[member]),
          raised |-> FALSE]
    ELSE [pm |-> m, actions |-> << >>, raised |-> TRUE]

\* kbars is <<>> (no kbar_list given) or <<kbar_list>>
on_price_update(m, cfg, current_price, kbars) ==
    IF ~has_position(m) THEN [pm |-> m, actions |-> << >>, raised |-> FALSE]
    ELSE
    LET m1 == [m EXCEPT !.position[1] = update_price_tracking(@, current_price)]
        with_bars == kbars /= <<>> /\ m.indicator_service
        fs == IF cfg.enable_macd_fast_stop /\ with_bars
              THEN _check_macd_fast_stop(m1, cfg, current_price, kbars[1])
              ELSE [pm |-> m1, triggered |-> FALSE]
        mo == IF with_bars
              THEN _check_momentum_exhaustion(fs.pm, current_price, kbars[1])
              ELSE [pm |-> fs.pm, result |-> FALSE]
        m3 == mo.pm
    IN  IF fs.triggered THEN CloseAll(fs.pm, current_price, "FAST_STOP")
        ELSE IF mo.result THEN CloseAll(m3, current_price, "MOMENTUM_EXIT")
        ELSE [pm |-> [m3 EXCEPT !.position[1] =
                         _update_trailing_stops(m3, cfg, current_price)],
              actions |-> LegExits(m3, 1, current_price),
              raised |-> FALSE]

\* on_fill that keeps the closed position and the fast-stop timestamp
on_fill_keeps_closed(m, leg_id, fill_price, fill_time, exit_reason) ==
    IF m.position = <<>> THEN m
    ELSE [m EXCEPT !.position =
             << close_leg(m.position[1], leg_id, fill_price, fill_time,
                          exit_reason) >>]

on_fill(m, leg_id, fill_price, fill_time, exit_reason) ==
    IF m.position = <<>> THEN m
    ELSE LET pos1 == close_leg(m.position[1], leg_id, fill_price, fill_time,
                               exit_reason)
         IN  IF pos1.status = "CLOSED"
             THEN [m EXCEPT !.position = <<>>,
                            !.last_fast_stop_check_kbar_time = None]
             ELSE [m EXCEPT !.position = <<pos1>>]

\* current_time is [hour, minute]; force_exit_time is <<>> or <<hour, minute>>
check_time_exit(m, cfg, current_time, current_price) ==
    IF ~has_position(m) \/ cfg.force_exit_time = <<>>
    THEN [pm |-> m, actions |-> << >>, raised |-> FALSE]
    ELSE LET exit_h == cfg.force_exit_time[1]
             exit_m == cfg.force_exit_time[2]
             cur_h == current_time.hour
             cur_m == current_time.minute
         IN  IF cur_h > exit_h \/ (cur_h = exit_h /\ cur_m >= exit_m)
             THEN CloseAll(m, current_price, "TIME_EXIT")
             ELSE [pm |-> m, actions |-> << >>, raised |-> FALSE]

reset(m) ==
    [m EXCEPT !.position = <<>>, !.last_fast_stop_check_kbar_time = None]

\* ------------------------------------------------------ the configuration

\* the record of attributes __init__ assigns
ConfigFields(a) ==
    [total_quantity |-> a.total_quantity,
     tp_leg_quantity |-> a.tp_leg_quantity,
     ts_leg_quantity |-> a.ts_leg_quantity,
     stop_loss_points |-> a.stop_loss_points,
     stop_loss_points_rate |-> a.stop_loss_points_rate,
     take_profit_points |-> a.take_profit_points,
     take_profit_points_rate |-> a.take_profit_points_rate,
     start_trailing_stop_points |-> a.start_trailing_stop_points,
     trailing_stop_points |-> a.trailing_stop_points,
     trailing_stop_points_rate |-> a.trailing_stop_points_rate,
     tighten_after_points |-> a.tighten_after_points,
     tighten_after_points_rate |-> a.tighten_after_points_rate,
     tightened_trailing_stop_points |-> a.tightened_trailing_stop_points,
     tightened_trailing_stop_points_rate |->
         a.tightened_trailing_stop_points_rate,
     enable_macd_fast_stop |-> a.enable_macd_fast_stop,
     force_exit_time |-> a.force_exit_time]

\* __init__ without the validation of the quantities
PositionManagerConfigUnchecked(a) ==
    [raised |-> FALSE, error |-> "", config |-> << ConfigFields(a) >>]

\* PositionManagerConfig.__init__ on its keyword arguments: [raised, config]
\* (timeframe is omitted: the manager never reads it)
PositionManagerConfig(a) ==
    IF a.tp_leg_quantity + a.ts_leg_quantity /= a.total_quantity
    THEN [raised |-> TRUE, error |-> "ValueError", config |-> << >>]
    ELSE [raised |-> FALSE, error |-> "", config |-> << ConfigFields(a) >>]

\* the trading keys from_dict reads with trading[...]
RequiredTradingKeys ==
    {"stop_loss_points", "take_profit_points", "start_trailing_stop_points",
     "trailing_stop_points"}

\* from_dict(trading, position): position is <<>> (None) or <<dict>>; the
\* arguments are evaluated before the constructor runs, so a missing
\* trading key raises KeyError whatever the quantities are
from_dict(trading, position) ==
    LET pos == IF position = << >> THEN EmptyDict ELSE position[1]
        total_qty == Get(pos, "total_quantity", 1)
    IN  IF ~(RequiredTradingKeys \subseteq DOMAIN trading)
        THEN [raised |-> TRUE, error |-> "KeyError", config |-> << >>]
        ELSE PositionManagerConfig(
               [total_quantity |-> total_qty,
                tp_leg_quantity |-> Get(pos, "tp_leg_quantity", 0),
                ts_leg_quantity |-> Get(pos, "ts_leg_quantity", total_qty),
                stop_loss_points |-> trading["stop_loss_points"],
                stop_loss_points_rate |-> Get(trading, "stop_loss_points_rate", None),
                take_profit_points |-> trading["take_profit_points"],
                take_profit_points_rate |->
                    Get(trading, "take_profit_points_rate", None),
                start_trailing_stop_points |->
                    trading["start_trailing_stop_points"],
                trailing_stop_points |-> trading["trailing_stop_points"],
                trailing_stop_points_rate |->
                    Get(trading, "trailing_stop_points_rate", None),
                tighten_after_points |-> Get(trading, "tighten_after_points", None),
                tighten_after_points_rate |->
                    Get(trading, "tighten_after_points_rate", None),
                tightened_trailing_stop_points |->
                    Get(trading, "tightened_trailing_stop_points", None),
                tightened_trailing_stop_points_rate |->
                    Get(trading, "tightened_trailing_stop_points_rate", None),
                enable_macd_fast_stop |->
                    Get(trading, "enable_macd_fast_stop", TRUE),
                force_exit_time |-> Get(trading, "force_exit_time", << >>)])

\* the keyword arguments of a call that names the quantities, the four
\* distances, the staged tightening and the forced exit time
ConfigArgs(total, tp, ts, sl_pts, tp_pts, start_pts, ts_pts, after, tight, fet) ==
    [total_quantity |-> total, tp_leg_quantity |-> tp, ts_leg_quantity |-> ts,
     stop_loss_points |-> sl_pts, stop_loss_points_rate |-> None,
     take_profit_points |-> tp_pts, take_profit_points_rate |-> None,
     start_trailing_stop_points |-> start_pts,
     trailing_stop_points |-> ts_pts, trailing_stop_points_rate |-> None,
     tighten_after_points |-> after, tighten_after_points_rate |-> None,
     tightened_trailing_stop_points |-> tight,
     tightened_trailing_stop_points_rate |-> None,
     enable_macd_fast_stop |-> TRUE, force_exit_time |-> fet]

\* ------------------------------------------ executors/backtest_executor.py

NewBacktestExecutor(slippage_points) ==
    [slippage_points |-> slippage_points, simulated_price |-> 0]

set_market_state(ex, price) == [ex EXCEPT !.simulated_price = price]

\* variants of execute: one that fills at the simulated price, one that
\* applies the slippage to Open orders only
execute_at_simulated_price(ex, order_action) ==
    [success |-> TRUE, fill_price |-> ex.simulated_price,
     fill_quantity |-> order_action.quantity]

execute_slippage_on_open(ex, order_action) ==
    [success |-> TRUE,
     fill_price |-> IF order_action.order_type /= "Open"
                    THEN ex.simulated_price
                    ELSE IF order_action.action = "Buy"
                    THEN ex.simulated_price + ex.slippage_points
                    ELSE ex.simulated_price - ex.slippage_points,
     fill_quantity |-> order_action.quantity]

\* the FillResult of BacktestExecutor.execute: always a success
execute(ex, order_action) ==
    [success |-> TRUE,
     fill_price |-> IF order_action.action = "Buy"
                    THEN ex.simulated_price + ex.slippage_points
                    ELSE ex.simulated_price - ex.slippage_points,
     fill_quantity |-> order_action.quantity]

\* --------------------------------------------- engines/backtest_engine.py

\* the variant without the gap rule: a triggered order fills at its trigger
_calculate_fill_price_at_trigger(exit_reason, trigger_price, kbar, is_long) ==
    IF exit_reason = ExitReason.FAST_STOP
    THEN [raised |-> FALSE, value |-> kbar.open]
    ELSE IF trigger_price = None THEN [raised |-> FALSE, value |-> kbar.close]
    ELSE IF exit_reason \in {ExitReason.TAKE_PROFIT, ExitReason.STOP_LOSS,
                             ExitReason.TRAILING_STOP}
    THEN [raised |-> FALSE, value |-> trigger_price]
    ELSE [raised |-> ~HasMember("TIME_EXIT"),
          value |-> IF HasMember("TIME_EXIT") THEN kbar.close ELSE None]

\* [raised, value]: the comparison with ExitReason.TIME_EXIT is reached by
\* a reason other than FS, TP, SL and TS that comes with a trigger price,
\* and raises AttributeError when the enum has no such member
_calculate_fill_price(exit_reason, trigger_price, kbar, is_long) ==
    LET return(v) == [raised |-> FALSE, value |-> v]
    IN  IF exit_reason = ExitReason.FAST_STOP THEN return(kbar.open)
        ELSE IF trigger_price = None THEN return(kbar.close)
        ELSE IF exit_reason = ExitReason.TAKE_PROFIT
        THEN IF is_long
             THEN IF kbar.open >= trigger_price THEN return(kbar.open)
                  ELSE return(trigger_price)
             ELSE IF kbar.open <= trigger_price THEN return(kbar.open)
                  ELSE return(trigger_price)
        ELSE IF exit_reason \in {ExitReason.STOP_LOSS, ExitReason.TRAILING_STOP}
        THEN IF is_long
             THEN IF kbar.open <= trigger_price THEN return(kbar.open)
                  ELSE return(trigger_price)
             ELSE IF kbar.open >= trigger_price THEN return(kbar.open)
                  ELSE return(trigger_price)
        ELSE IF ~HasMember("TIME_EXIT")
        THEN [raised |-> TRUE, value |-> None]
        ELSE return(kbar.close)

\* the bars with prices in P: low <= open, close <= high
KBars(P) ==
    { b \in [open : P, high : P, low : P, close : P] :
        /\ b.low <= b.open /\ b.low <= b.close
        /\ b.high >= b.open /\ b.high >= b.close }

ForceExitTime == <<13, 30>>

Times == {[hour |-> 13, minute |-> 25], [hour |-> 13, minute |-> 30]}

\* two legs, staged tightening, fast stop and a forced exit time configured
TwoLegConfig ==
    PositionManagerConfig(
        ConfigArgs(2, 1, 1, 1, 2, 1, 2, 2, 1, ForceExitTime)).config[1]

\* --------------------------------------------------------- the calls' inputs

EntryPrice == PriceBase + 2

KeyLevelsAbove == <<PriceBase + 2, PriceBase + 3>>
KeyLevelsBelow == <<PriceBase + 2, PriceBase + 1>>

\* two levels beyond the entry price, for a long and for a short
KeyLevelsAhead == <<PriceBase + 3, PriceBase + 4>>
KeyLevelsBehind == <<PriceBase + 1, PriceBase>>

\* metadata a strategy can put on an entry signal
SignalMetas ==
    { EmptyDict,
      [key_levels |-> KeyLevelsAbove, key_level_buffer |-> 2,
       key_level_min_profit |-> 2],
      [key_levels |-> KeyLevelsBelow, key_level_buffer |-> 2,
       key_level_min_profit |-> 2],
      [key_levels |-> << >>],
      [key_levels |-> KeyLevelsAhead, key_level_buffer |-> 1],
      [key_levels |-> KeyLevelsBehind, key_level_buffer |-> 1],
      [override_trailing_stop_points |-> 1, override_stop_loss_distance |-> 3,
       override_take_profit_points |-> 2,
       override_start_trailing_stop_points |-> 2,
       use_momentum_exit |-> TRUE, momentum_min_profit |-> 1] }

StrategySignal(signal_type, price, metadata) ==
    [signal_type |-> signal_type, price |-> price, metadata |-> metadata]

\* what the manager reads from a KBarList: its length, the time of its latest
\* bar, the extremes of its last 31 bars, the crosses the indicator service
\* finds in its MACD, and the momentum counters of its latest bars
KBarList(len, time, cross, consecutive_weak) ==
    [len |-> len, time |-> time,
     min_low31 |-> PriceBase - 1, max_high31 |-> PriceBase + PriceSpan + 1,
     death_cross |-> cross = "death", golden_cross |-> cross = "golden",
     consecutive_weak |-> consecutive_weak, shrinking |-> 0]

KBarLists ==
    { KBarList(35, t, c, 0) :
        t \in 1..MaxKBarTime, c \in {"none", "death", "golden"} }
    \cup { KBarList(35, t, "none", 3) : t \in 1..MaxKBarTime }
    \cup { KBarList(30, 1, "none", 0) }

\* kbar_list arguments of on_price_update: None or a list
OptionalKBarLists == {<< >>} \cup {<<kb>> : kb \in KBarLists}

\* the on_signal calls of a caller: [signal, kbar_list]
SignalCall(signal_type, metadata, len) ==
    [signal |-> StrategySignal(signal_type, EntryPrice, metadata),
     kbar_list |-> KBarList(len, 1, "none", 0)]

MetasOf(signal_type) ==
    IF signal_type = "ENTRY_LONG"
    THEN {md \in SignalMetas :
            Get(md, "key_levels", << >>) \notin {KeyLevelsBelow, KeyLevelsBehind}}
    ELSE {md \in SignalMetas :
            Get(md, "key_levels", << >>) \notin {KeyLevelsAbove, KeyLevelsAhead}}

SignalCalls ==
    { SignalCall(t, EmptyDict, len) :
        t \in {"HOLD", "EXIT", "ENTRY_LONG", "ENTRY_SHORT"}, len \in {30, 35} }
    \cup UNION { { SignalCall(t, md, 35) : md \in MetasOf(t) } :
                   t \in {"ENTRY_LONG", "ENTRY_SHORT"} }

LegIds == {<<id, t>> : id \in 1..MaxPositions, t \in {"TP", "TS"}}

\* ------------------------------------------- the manager under any caller

NoDriver == [pc |-> "none"]
NoExecutor == [slippage_points |-> 0, simulated_price |-> None]
NoFn == [f |-> "none", returned |-> FALSE]
NoStrategy == [name |-> "none"]

Init ==
    /\ config = TwoLegConfig
    /\ pm = NewPositionManager(TRUE)
    /\ next_uuid = 1
    /\ drv = NoDriver
    /\ executor = NoExecutor
    /\ fn = NoFn
    /\ strategy = NoStrategy

OnSignal ==
    \E c \in SignalCalls :
        LET r == on_signal(pm, config, c.signal, c.kbar_list, next_uuid)
        IN  /\ r.actions /= << >> => next_uuid <= MaxPositions
            /\ pm' = r.pm
            /\ next_uuid' = IF r.actions /= << >> THEN next_uuid + 1
                            ELSE next_uuid
            /\ UNCHANGED <<strategy, config, drv, executor, fn>>

OnPriceUpdate ==
    \E p \in Prices, kbars \in OptionalKBarLists :
        /\ ~on_price_update(pm, config, p, kbars).raised
        /\ pm' = on_price_update(pm, config, p, kbars).pm
        /\ UNCHANGED <<strategy, config, next_uuid, drv, executor, fn>>

\* on_price_update raises: the caller keeps the manager as the call left it
OnPriceUpdateRaises ==
    \E p \in Prices, kbars \in OptionalKBarLists :
        /\ on_price_update(pm, config, p, kbars).raised
        /\ pm' = on_price_update(pm, config, p, kbars).pm
        /\ UNCHANGED <<strategy, config, next_uuid, drv, executor, fn>>

OnFill ==
    \E id \in LegIds :
        /\ pm' = on_fill(pm, id, PriceBase, 1, ExitReason.STOP_LOSS)
        /\ UNCHANGED <<strategy, config, next_uuid, drv, executor, fn>>

CheckTimeExit ==
    \E t \in Times :
        /\ pm' = check_time_exit(pm, config, t, EntryPrice).pm
        /\ UNCHANGED <<strategy, config, next_uuid, drv, executor, fn>>

Reset ==
    /\ pm' = reset(pm)
    /\ UNCHANGED <<strategy, config, next_uuid, drv, executor, fn>>

Next ==
    \/ OnSignal
    \/ OnPriceUpdate
    \/ OnPriceUpdateRaises
    \/ OnFill
    \/ CheckTimeExit
    \/ Reset

Spec == Init /\ [][Next]_vars

\* ----------------------------------------- building a configuration

MaxQuantity == 2

Quantities == 0..MaxQuantity

\* trading blocks: any subset of the required keys, each with its value
TradingDicts ==
    { [k \in K |-> IF k = "take_profit_points" THEN 2
                   ELSE IF k = "trailing_stop_points" THEN 2 ELSE 1] :
        K \in SUBSET RequiredTradingKeys }

PositionKeys == {"total_quantity", "tp_leg_quantity", "ts_leg_quantity"}

\* position blocks: None, or any subset of the quantity keys with values
PositionDicts ==
    {<< >>}
    \cup UNION { { <<d>> : d \in [K -> Quantities] } : K \in SUBSET PositionKeys }

\* the calls to make: the constructor on its quantities, or from_dict on a
\* trading block and a position block; quantities are the ones the
\* constructor receives (from_dict's defaults applied)
ConstructorCalls ==
    { [f |-> "PositionManagerConfig", returned |-> FALSE,
       trading |-> EmptyDict, position |-> << >>, missing_keys |-> {},
       total_quantity |-> total, tp_leg_quantity |-> tp, ts_leg_quantity |-> ts,
       raised |-> FALSE, error |-> ""] :
        total \in Quantities, tp \in Quantities, ts \in Quantities }

FromDictCall(trading, position) ==
    LET pos == IF position = << >> THEN EmptyDict ELSE position[1]
        total == Get(pos, "total_quantity", 1)
    IN  [f |-> "from_dict", returned |-> FALSE,
         trading |-> trading, position |-> position,
         missing_keys |-> RequiredTradingKeys \ DOMAIN trading,
         total_quantity |-> total,
         tp_leg_quantity |-> Get(pos, "tp_leg_quantity", 0),
         ts_leg_quantity |-> Get(pos, "ts_leg_quantity", total),
         raised |-> FALSE, error |-> ""]

FromDictCalls ==
    { FromDictCall(trading, position) :
        trading \in TradingDicts, position \in PositionDicts }

InitCfg ==
    /\ config = TwoLegConfig
    /\ pm = NewPositionManager(TRUE)
    /\ next_uuid = 1
    /\ drv = NoDriver
    /\ executor = NoExecutor
    /\ fn \in ConstructorCalls \cup FromDictCalls
    /\ strategy = NoStrategy

\* the configuration in use is replaced only by one that was constructed
Built(r) == IF r.raised THEN config ELSE r.config[1]

Construct ==
    /\ fn.f = "PositionManagerConfig"
    /\ ~fn.returned
    /\ LET a == ConfigArgs(fn.total_quantity, fn.tp_leg_quantity,
                           fn.ts_leg_quantity, 1, 2, 1, 2, None, None, << >>)
           r == PositionManagerConfig(a)
       IN  /\ fn' = [fn EXCEPT !.returned = TRUE, !.raised = r.raised,
                               !.error = r.error]
           /\ config' = Built(r)
    /\ UNCHANGED <<strategy, pm, next_uuid, drv, executor>>

FromDict ==
    /\ fn.f = "from_dict"
    /\ ~fn.returned
    /\ LET r == from_dict(fn.trading, fn.position)
       IN  /\ fn' = [fn EXCEPT !.returned = TRUE, !.raised = r.raised,
                               !.error = r.error]
           /\ config' = Built(r)
    /\ UNCHANGED <<strategy, pm, next_uuid, drv, executor>>

NextCfg == Construct \/ FromDict

SpecCfg == InitCfg /\ [][NextCfg]_vars

\* ----------------------------------------- resolving an exit fill price

FillPriceCalls ==
    [f : {"_calculate_fill_price"}, returned : {FALSE},
     exit_reason : ExitReasonValues, trigger_price : Prices \cup {None},
     kbar : KBars(Prices), is_long : BOOLEAN,
     raised : {FALSE}, value : {None}]

InitFill ==
    /\ config = TwoLegConfig
    /\ pm = NewPositionManager(TRUE)
    /\ next_uuid = 1
    /\ drv = NoDriver
    /\ executor = NoExecutor
    /\ fn \in FillPriceCalls
    /\ strategy = NoStrategy

CalculateFillPrice ==
    /\ ~fn.returned
    /\ LET r == _calculate_fill_price(fn.exit_reason, fn.trigger_price,
                                      fn.kbar, fn.is_long)
       IN  fn' = [fn EXCEPT !.returned = TRUE, !.raised = r.raised,
                            !.value = r.value]
    /\ UNCHANGED <<strategy, config, pm, next_uuid, drv, executor>>

NextFill == CalculateFillPrice

SpecFill == InitFill /\ [][NextFill]_vars

\* -------------------------- engines/backtest_engine.py: _run_single_unit

BarSpan == 1
BarStep == 2
NumBars == 5
MaxSlippage == 1

\* for i in range(30, len(kbar_list))
FirstIndex == 30
LastIndex == FirstIndex + NumBars - 1

initial_capital == 1000000
point_value == 50

\* the prices a bar or a quote can take: BarSpan + 1 levels, BarStep apart
BarPrices == {PriceBase + BarStep * n : n \in 0..BarSpan}

\* the unit's pm_config: two legs, every distance one point, fast stop on,
\* a forced exit time
DriverConfig ==
    PositionManagerConfig(
        ConfigArgs(2, 1, 1, 1, 1, 1, 1, None, None, ForceExitTime)).config[1]

\* kbar_list.kbars[: i + 1]: i + 1 bars, the latest at time i; the extremes
\* of its last 31 bars are those of bar i ("current") or of an earlier bar
CurrentKBars(i, kbar, extreme, cross, consecutive_weak) ==
    [len |-> i + 1, time |-> i,
     min_low31 |-> IF extreme = "current" THEN kbar.low ELSE PriceBase - 1,
     max_high31 |-> IF extreme = "current" THEN kbar.high
                    ELSE PriceBase + BarStep * BarSpan + 1,
     death_cross |-> cross = "death", golden_cross |-> cross = "golden",
     consecutive_weak |-> consecutive_weak, shrinking |-> 0]

\* one entry of the record of the calls made while a bar is processed
Called(op, price, detail, order) ==
    [op |-> op, price |-> price, detail |-> detail, success |-> TRUE,
     time |-> << >>,
     action |-> IF order = << >> THEN "None" ELSE order[1].action,
     exit_reason |-> IF order = << >> THEN ""
                     ELSE Get(order[1].metadata, "exit_reason", ""),
     leg_id |-> IF order = << >> THEN NoLeg ELSE order[1].leg_id,
     quantity |-> IF order = << >> THEN 0 ELSE order[1].quantity,
     leg_ids |-> IF order = << >> THEN << >>
                 ELSE Get(order[1].metadata, "leg_ids", << >>),
     returned |-> << >>]

NewBacktest ==
    [pc |-> "step1", i |-> FirstIndex,
     deferred_signal |-> << >>, deferred_direction |-> "None",
     pending_entry_price |-> None, pending_direction |-> "None",
     trades |-> << >>, current_equity |-> initial_capital,
     equity_point |-> initial_capital,
     kbar |-> << >>, calls |-> << >>, signal_bar |-> None,
     entry |-> << >>, last_position |-> << >>]

InitBT ==
    /\ config = DriverConfig
    /\ pm = NewPositionManager(TRUE)
    /\ next_uuid = 1
    /\ drv = NewBacktest
    /\ executor \in {NewBacktestExecutor(s) : s \in 0..MaxSlippage}
    /\ fn = NoFn
    /\ strategy = NoStrategy

\* Step 1: bar i is read and the entry deferred from bar i - 1 is filled at
\* its open (on_signal returns at most one order, the Open)
DeferredEntry(kbar, extreme) ==
    LET ex0 == set_market_state(executor, kbar.open)
        entering == drv.deferred_signal /= << >> /\ ~has_position(pm)
        current_kbars == CurrentKBars(drv.i, kbar, extreme, "none", 0)
        signal == [drv.deferred_signal[1] EXCEPT !.price = kbar.open]
        r == on_signal(pm, config, signal, current_kbars, next_uuid)
        opened == entering /\ r.actions /= << >>
        ex1 == IF opened THEN set_market_state(ex0, kbar.open) ELSE ex0
        fill == execute(ex1, r.actions[1])
        pm1 == IF ~entering THEN pm
               ELSE IF opened /\ r.pm.position /= << >>
               THEN [r.pm EXCEPT !.position[1].entry_price = fill.fill_price,
                                 !.position[1].highest_price = fill.fill_price,
                                 !.position[1].lowest_price = fill.fill_price]
               ELSE r.pm
        calls == << Called("set_market_state", kbar.open, "", << >>) >>
                 \o (IF entering
                     THEN << Called("on_signal", kbar.open,
                                    signal.signal_type, << >>) >>
                     ELSE << >>)
                 \o (IF opened
                     THEN << Called("set_market_state", kbar.open, "", << >>),
                             Called("execute", fill.fill_price, "Open",
                                    << r.actions[1] >>) >>
                     ELSE << >>)
    IN  [pm |-> pm1, executor |-> ex1, entering |-> entering,
         opened |-> opened,
         drv |-> [drv EXCEPT
                    !.pc = "step2",
                    !.kbar = << kbar >>,
                    !.calls = calls,
                    !.deferred_signal = IF entering THEN << >> ELSE @,
                    !.deferred_direction = IF entering THEN "None" ELSE @,
                    !.pending_entry_price =
                        IF opened THEN fill.fill_price ELSE @,
                    !.pending_direction =
                        IF opened THEN drv.deferred_direction ELSE @,
                    !.signal_bar = IF entering THEN None ELSE @,
                    !.entry =
                        IF entering
                        THEN << [signal_bar |-> drv.signal_bar,
                                 direction |-> drv.deferred_direction,
                                 opened |-> opened] >>
                        ELSE << >>]]

Step1(kbar, extreme) ==
    \E r \in {DeferredEntry(kbar, extreme)} :
        /\ pm' = r.pm
        /\ executor' = r.executor
        /\ drv' = r.drv
        /\ next_uuid' = IF r.opened THEN next_uuid + 1 ELSE next_uuid

BTStep1 ==
    /\ drv.pc = "step1"
    /\ \E kbar \in KBars(BarPrices),
          extreme \in IF drv.deferred_signal /= << >> /\ ~has_position(pm)
                      THEN {"current", "earlier"} ELSE {"current"} :
        Step1(kbar, extreme)
    /\ UNCHANGED <<strategy, config, fn>>

\* the on_price_update calls at the prices of `probes`, in order, until one
\* returns orders or raises: [pm, actions, raised, calls]
RECURSIVE Probe(_, _, _, _, _)
Probe(m, probes, k, kbars, calls) ==
    IF k > Len(probes)
    THEN [pm |-> m, actions |-> << >>, raised |-> FALSE, calls |-> calls]
    ELSE LET r == on_price_update(m, config, probes[k], << kbars >>)
             calls1 == Append(calls,
                          [Called("on_price_update", probes[k], "", << >>)
                             EXCEPT !.returned = r.actions])
         IN  IF r.raised \/ r.actions /= << >>
             THEN [pm |-> r.pm, actions |-> r.actions, raised |-> r.raised,
                   calls |-> calls1]
             ELSE Probe(r.pm, probes, k + 1, kbars, calls1)

\* the open and the two extremes with the favourable extreme first
ExtremeProbesFavourableFirst(kbar, is_long) ==
    IF is_long THEN << kbar.open, kbar.high, kbar.low >>
    ELSE << kbar.open, kbar.low, kbar.high >>

\* the prices probed before the close: the open, then low and high for a
\* long, high and low for a short
ExtremeProbes(kbar, is_long) ==
    IF is_long THEN << kbar.open, kbar.low, kbar.high >>
    ELSE << kbar.open, kbar.high, kbar.low >>

\* Step 2 up to the orders: price tracking at high and low, the time exit,
\* then open, the two extremes (adverse one first) and, with no order so
\* far, the close, whose orders are dropped
ExitChecks(m, kbar, kbars, current_time) ==
    LET is_long == m.position[1].direction = "Buy"
        m0 == [m EXCEPT !.position[1] =
                  update_price_tracking(
                      update_price_tracking(@, kbar.high), kbar.low)]
        te == check_time_exit(m0, config, current_time, kbar.close)
        calls0 == << [Called("check_time_exit", kbar.close, "", << >>)
                        EXCEPT !.time = << current_time >>,
                               !.returned = te.actions] >>
        probes == ExtremeProbes(kbar, is_long)
        pr == Probe(m0, probes, 1, kbars, calls0)
        last == on_price_update(pr.pm, config, kbar.close, << kbars >>)
    IN  IF te.raised \/ te.actions /= << >>
        THEN [pm |-> te.pm, actions |-> te.actions, raised |-> te.raised,
              calls |-> calls0]
        ELSE IF pr.raised \/ pr.actions /= << >> THEN pr
        ELSE [pm |-> last.pm, actions |-> << >>, raised |-> last.raised,
              calls |-> Append(pr.calls,
                          [Called("on_price_update", kbar.close, "", << >>)
                             EXCEPT !.returned = last.actions])]

\* on_fill for each leg of leg_ids, in order: [pm, last_position, calls]
RECURSIVE FillLegs(_, _, _, _, _, _)
FillLegs(st, leg_ids, k, fill_price, fill_time, exit_reason) ==
    IF k > Len(leg_ids) THEN st
    ELSE LET after ==
                IF st.pm.position = << >> THEN st.last_position
                ELSE << close_leg(st.pm.position[1], leg_ids[k], fill_price,
                                  fill_time, exit_reason) >>
             st1 == [st EXCEPT
                       !.pm = on_fill(st.pm, leg_ids[k], fill_price, fill_time,
                                      exit_reason),
                       !.last_position = after,
                       !.calls = Append(@,
                           [Called("on_fill", fill_price, exit_reason, << >>)
                              EXCEPT !.leg_id = leg_ids[k]])]
         IN  FillLegs(st1, leg_ids, k + 1, fill_price, fill_time, exit_reason)

\* the loop over the Close orders of a bar; st is the loop's state: [pm,
\* executor, trades, current_equity, pending_entry_price, pending_direction,
\* calls, last_position, raised]
RECURSIVE ExecuteExits(_, _, _, _, _, _)
ExecuteExits(st, actions, k, kbar, is_long, current_time) ==
    IF k > Len(actions) \/ st.raised THEN st
    ELSE
    LET action == actions[k]
        exit_reason_str == Get(action.metadata, "exit_reason", "SL")
        trigger_price == Get(action.metadata, "trigger_price", None)
        sim == IF exit_reason_str \in ExitReasonValues
               THEN _calculate_fill_price(exit_reason_str, trigger_price, kbar,
                                          is_long)
               ELSE [raised |-> TRUE, value |-> None]
        ex1 == set_market_state(st.executor, sim.value)
        fill == execute(ex1, action)
        leg_ids == IF action.leg_id /= NoLeg THEN << action.leg_id >>
                   ELSE Get(action.metadata, "leg_ids", << >>)
        st1 == [st EXCEPT
                  !.executor = ex1,
                  !.calls = @ \o
                     << Called("_calculate_fill_price", sim.value,
                               exit_reason_str, << >>),
                        Called("set_market_state", sim.value, "", << >>),
                        Called("execute", fill.fill_price, "Close",
                               << action >>) >>]
        st2 == FillLegs(st1, leg_ids, 1, fill.fill_price, current_time,
                        exit_reason_str)
        pnl_points == IF st.pending_direction = "Buy"
                      THEN fill.fill_price - st.pending_entry_price
                      ELSE st.pending_entry_price - fill.fill_price
        pnl_twd == pnl_points * action.quantity * point_value
        trade == [action |-> IF st.pending_direction = "None" THEN "Buy"
                             ELSE st.pending_direction,
                  entry_price |-> st.pending_entry_price,
                  exit_price |-> fill.fill_price,
                  quantity |-> action.quantity,
                  exit_reason |-> exit_reason_str,
                  pnl_points |-> pnl_points, pnl_twd |-> pnl_twd]
        st3 == IF st.pending_entry_price /= None
               THEN [st2 EXCEPT !.trades = Append(@, trade),
                                !.current_equity = @ + pnl_twd,
                                !.calls = Append(@,
                                    Called("trades.append", trade.exit_price,
                                           exit_reason_str, << action >>))]
               ELSE st2
        st4 == IF ~has_position(st3.pm)
               THEN [st3 EXCEPT !.pending_entry_price = None,
                                !.pending_direction = "None",
                                !.calls = Append(@,
                                    Called("on_position_closed", None, "",
                                           << >>))]
               ELSE st3
    IN  IF sim.raised THEN [st EXCEPT !.raised = TRUE]
        ELSE ExecuteExits(st4, actions, k + 1, kbar, is_long, current_time)

\* `if pm.has_position:` at the head of Step 2
ExitChecksSkipEntryBar(m, d) == has_position(m) /\ d.entry = << >>

ExitChecksApply(m, d) == has_position(m)

\* the crosses the indicator service can report on a list of this length,
\* and the counts of weak bars the momentum check can find
Crosses(len) == IF len >= 35 THEN {"none", "death", "golden"} ELSE {"none"}

WeakCounts(m) ==
    IF Get(m.position[1].metadata, "use_momentum_exit", FALSE) THEN {0, 3}
    ELSE {0}

\* Step 2: the exit checks of a held position and the execution of their
\* orders; an exception leaves the loop
Step2(current_time, cross, weak) ==
       \E checks \in {ExitChecks(pm, drv.kbar[1],
                                  CurrentKBars(drv.i, drv.kbar[1], "current",
                                               cross, weak),
                                  current_time)} :
       \E st \in {ExecuteExits([pm |-> checks.pm, executor |-> executor,
                                trades |-> drv.trades,
                                current_equity |-> drv.current_equity,
                                pending_entry_price |->
                                    drv.pending_entry_price,
                                pending_direction |-> drv.pending_direction,
                                calls |-> drv.calls \o checks.calls,
                                last_position |-> << >>,
                                raised |-> checks.raised],
                               checks.actions, 1, drv.kbar[1],
                               pm.position[1].direction = "Buy",
                               current_time)} :
            /\ pm' = st.pm
            /\ executor' = st.executor
            /\ drv' = IF st.raised
                      THEN [NewBacktest EXCEPT !.pc = "raised", !.i = drv.i,
                                              !.calls = st.calls,
                                              !.entry = drv.entry]
                      ELSE
                       [drv EXCEPT
                         !.pc = "step4",
                         !.trades = st.trades,
                         !.current_equity = st.current_equity,
                         !.pending_entry_price = st.pending_entry_price,
                         !.pending_direction = st.pending_direction,
                         !.calls = st.calls,
                         !.last_position = st.last_position]

BTStep2 ==
    /\ drv.pc = "step2"
    /\ ExitChecksApply(pm, drv)
    /\ \E current_time \in Times, cross \in Crosses(drv.i + 1),
          weak \in WeakCounts(pm) :
        Step2(current_time, cross, weak)
    /\ UNCHANGED <<strategy, config, next_uuid, fn>>

\* what strategy.evaluate can return on a bar
Evaluations(kbar) ==
    { StrategySignal("HOLD", kbar.close, EmptyDict) }
    \cup { StrategySignal(t, kbar.close, md) :
             t \in {"ENTRY_LONG", "ENTRY_SHORT"},
             md \in {EmptyDict,
                     [use_momentum_exit |-> TRUE, momentum_min_profit |-> 1]} }

\* Step 3: no position and nothing deferred: the strategy is evaluated
Step3(signal) ==
        LET is_entry == signal.signal_type \in {"ENTRY_LONG", "ENTRY_SHORT"}
            evaluated == drv.deferred_signal = << >>
        IN  /\ is_entry => next_uuid <= MaxPositions
            /\ drv' = IF evaluated /\ is_entry
                      THEN [drv EXCEPT
                              !.pc = "step4",
                              !.deferred_signal = << signal >>,
                              !.deferred_direction =
                                  IF signal.signal_type = "ENTRY_LONG"
                                  THEN "Buy" ELSE "Sell",
                              !.signal_bar = drv.i,
                              !.calls = Append(@, Called("evaluate", drv.kbar[1].close,
                                                  signal.signal_type, << >>))]
                      ELSE [drv EXCEPT !.pc = "step4"]

BTStep3 ==
    /\ drv.pc = "step2"
    /\ ~ExitChecksApply(pm, drv)
    /\ \E signal \in Evaluations(drv.kbar[1]) : Step3(signal)
    /\ UNCHANGED <<strategy, config, pm, next_uuid, executor, fn>>

\* Step 4: the equity point of the bar (with the unrealized profit of a held
\* position), then the next bar
Step4(last) ==
       LET kbar == drv.kbar[1]
           total_qty == config.total_quantity
           unrealized ==
              IF drv.pending_direction = "Buy"
              THEN (kbar.close - drv.pending_entry_price) * total_qty
                   * point_value
              ELSE (drv.pending_entry_price - kbar.close) * total_qty
                   * point_value
       IN  drv' = [drv EXCEPT
                     !.pc = IF drv.i = last THEN "done" ELSE "step1",
                     !.i = @ + 1,
                     !.equity_point =
                         IF has_position(pm) /\ drv.pending_entry_price /= None
                         THEN drv.current_equity + unrealized
                         ELSE drv.current_equity,
                     !.kbar = << >>, !.calls = << >>, !.entry = << >>,
                     !.last_position = << >>]

BTStep4 ==
    /\ drv.pc = "step4"
    /\ Step4(LastIndex)
    /\ UNCHANGED <<strategy, config, pm, next_uuid, executor, fn>>

NextBT == BTStep1 \/ BTStep2 \/ BTStep3 \/ BTStep4

SpecBT == InitBT /\ [][NextBT]_vars

\* ------------------------------------- the same loop over finer-priced bars

\* a run whose bars take every price of ProbeSpan + 1 adjacent levels, so
\* that one bar can open between a stop and a take-profit and reach both
ProbeSpan == 3
ProbeBars == 5

ProbePrices == PriceBase..(PriceBase + ProbeSpan)
ProbeLastIndex == FirstIndex + ProbeBars - 1

\* while nothing is held and no entry is deferred the bar is read by the
\* strategy alone, whose answers Step 3 enumerates: one shape of bar per
\* price is enough
ProbeKBars(held) ==
    IF held THEN KBars(ProbePrices)
    ELSE {b \in KBars(ProbePrices) : b.low = b.high}

InitProbe ==
    /\ config = DriverConfig
    /\ pm = NewPositionManager(TRUE)
    /\ next_uuid = 1
    /\ drv = NewBacktest
    /\ executor \in {NewBacktestExecutor(s) : s \in 0..MaxSlippage}
    /\ fn = NoFn
    /\ strategy = NoStrategy

ProbeStep1 ==
    /\ drv.pc = "step1"
    /\ \E kbar \in ProbeKBars(drv.deferred_signal /= << >>
                                \/ has_position(pm)) :
        Step1(kbar, "current")
    /\ UNCHANGED <<strategy, config, fn>>

ProbeStep2 ==
    /\ drv.pc = "step2"
    /\ ExitChecksApply(pm, drv)
    /\ \E current_time \in Times, cross \in Crosses(drv.i + 1),
          weak \in WeakCounts(pm) :
        Step2(current_time, cross, weak)
    /\ UNCHANGED <<strategy, config, next_uuid, fn>>

ProbeStep3 ==
    /\ drv.pc = "step2"
    /\ ~ExitChecksApply(pm, drv)
    /\ \E signal \in Evaluations(drv.kbar[1]) : Step3(signal)
    /\ UNCHANGED <<strategy, config, pm, next_uuid, executor, fn>>

ProbeStep4 ==
    /\ drv.pc = "step4"
    /\ Step4(ProbeLastIndex)
    /\ UNCHANGED <<strategy, config, pm, next_uuid, executor, fn>>

NextProbe == ProbeStep1 \/ ProbeStep2 \/ ProbeStep3 \/ ProbeStep4

SpecProbe == InitProbe /\ [][NextProbe]_vars

\* ------------------------------------- engines/backtest_engine.py: run

RunBars == 3

RunLastIndex == FirstIndex + RunBars - 1

\* a strategy that answers the bar of index `at` with `signal_type` and
\* every other bar with HOLD
ScriptedStrategy(signal_type, at) ==
    [i \in FirstIndex..RunLastIndex |->
        IF i = at THEN signal_type ELSE "HOLD"]

TradingUnit(name, a_strategy, pm_config) ==
    [name |-> name, strategy |-> a_strategy, pm_config |-> pm_config,
     enabled |-> TRUE]

\* two enabled units of one timeframe: the first without a forced exit time,
\* the second with one
TradingUnits ==
    { TradingUnit("long_unit", ScriptedStrategy("ENTRY_LONG", FirstIndex),
          PositionManagerConfig(
              ConfigArgs(2, 1, 1, 1, 1, 1, 1, None, None, << >>)).config[1]),
      TradingUnit("short_unit", ScriptedStrategy("ENTRY_SHORT", FirstIndex),
          DriverConfig) }

\* the lists of the units, in either order
UnitLists ==
    { l \in [1..2 -> TradingUnits] : l[1] /= l[2] }

\* the historical bars, fetched once: their prices, and their times, the
\* last of which may have reached the forced exit time
HistoricalBars == [1..RunBars -> KBars(BarPrices)]

HistoricalTimes ==
    { [k \in 1..RunBars |-> IF k = RunBars THEN t
                         ELSE [hour |-> 13, minute |-> 25]] :
        t \in Times }

\* two calls of run on the same bars, the first with one unit of the second
\* call's list alone; `outcomes` holds what each call returned or that it
\* raised
NewRun(bars, times, alone, units) ==
    [f |-> "run", returned |-> FALSE,
     bars |-> bars, times |-> times,
     plan |-> << << alone >>, units >>,
     call |-> 1, unit |-> 1,
     results |-> EmptyDict, equity_curve |-> << >>,
     outcomes |-> << >>]

InitRun ==
    /\ config = DriverConfig
    /\ pm = NewPositionManager(TRUE)
    /\ next_uuid = 1
    /\ drv = [NewBacktest EXCEPT !.pc = "run"]
    /\ strategy = NoStrategy
    /\ executor \in {NewBacktestExecutor(s) : s \in 0..MaxSlippage}
    /\ fn \in { NewRun(bars, times, units[k], units) :
                  bars \in HistoricalBars, times \in HistoricalTimes,
                  units \in UnitLists, k \in 1..2 }

CurrentUnits == fn.plan[fn.call]

CurrentUnit == CurrentUnits[fn.unit]

\* the head of _run_single_unit: the unit's own executor, PositionManager,
\* result, cash and deferred-signal slot (the position ids are fresh uuids,
\* which no result holds)
RunSingleUnit ==
    /\ drv.pc = "run"
    /\ fn.unit <= Len(CurrentUnits)
    /\ CurrentUnit.enabled
    /\ executor' = NewBacktestExecutor(executor.slippage_points)
    /\ pm' = NewPositionManager(TRUE)
    /\ config' = CurrentUnit.pm_config
    /\ next_uuid' = 1
    /\ drv' = NewBacktest
    /\ fn' = [fn EXCEPT !.equity_curve = << initial_capital >>]
    /\ UNCHANGED strategy

RunStep1 ==
    /\ drv.pc = "step1"
    /\ Step1(fn.bars[drv.i - FirstIndex + 1], "current")
    /\ UNCHANGED <<strategy, config, fn>>

RunStep2 ==
    /\ drv.pc = "step2"
    /\ ExitChecksApply(pm, drv)
    /\ Step2(fn.times[drv.i - FirstIndex + 1], "none", 0)
    /\ UNCHANGED <<strategy, config, next_uuid, fn>>

RunStep3 ==
    /\ drv.pc = "step2"
    /\ ~ExitChecksApply(pm, drv)
    /\ Step3(StrategySignal(CurrentUnit.strategy[drv.i], drv.kbar[1].close,
                            EmptyDict))
    /\ UNCHANGED <<strategy, config, pm, next_uuid, executor, fn>>

\* result.equity_curve.append((current_time, current_equity))
RunStep4 ==
    /\ drv.pc = "step4"
    /\ Step4(RunLastIndex)
    /\ fn' = [fn EXCEPT !.equity_curve = Append(@, drv'.equity_point)]
    /\ UNCHANGED <<strategy, config, pm, next_uuid, executor>>

\* results[unit.name] = result
RunUnitReturns ==
    /\ drv.pc = "done"
    /\ drv' = [drv EXCEPT !.pc = "run"]
    /\ fn' = [fn EXCEPT
                !.results = Put(@, CurrentUnit.name,
                                [trades |-> drv.trades,
                                 equity_curve |-> fn.equity_curve]),
                !.unit = @ + 1]
    /\ UNCHANGED <<strategy, config, pm, next_uuid, executor>>

\* the end of a call of run with `outcome`; the next call of the plan starts
\* with a new engine
EndOfCall(outcome) ==
    /\ drv' = [NewBacktest EXCEPT
                 !.pc = IF fn.call = Len(fn.plan) THEN "finished" ELSE "run"]
    /\ fn' = [fn EXCEPT
                !.outcomes = Append(@, outcome),
                !.call = @ + 1, !.unit = 1,
                !.results = EmptyDict, !.equity_curve = << >>,
                !.returned = fn.call = Len(fn.plan)]
    /\ UNCHANGED <<strategy, config, pm, next_uuid, executor>>

\* return results
RunReturns ==
    /\ drv.pc = "run"
    /\ fn.unit > Len(CurrentUnits)
    /\ EndOfCall([raised |-> FALSE, results |-> fn.results])

\* an exception of _run_single_unit, which run does not catch, ends the call
\* without a result for any unit
RunRaises ==
    /\ drv.pc = "raised"
    /\ EndOfCall([raised |-> TRUE, results |-> EmptyDict])

NextRun ==
    \/ RunSingleUnit \/ RunStep1 \/ RunStep2 \/ RunStep3 \/ RunStep4
    \/ RunUnitReturns \/ RunReturns \/ RunRaises

SpecRun == InitRun /\ [][NextRun]_vars

\* --------------------------------- engines/trading_engine.py: run

\* the FillResult of LiveExecutor.execute for an order sent at the quoted
\* price: a rejection, a timeout or an exception (success false, no price),
\* or a deal at most MaxSlippage points against the order
Outcomes(price, order_action) ==
    { [success |-> FALSE, fill_price |-> None] }
    \cup { [success |-> TRUE,
            fill_price |-> IF order_action.action = "Buy" THEN price + d
                           ELSE price - d] : d \in 0..MaxSlippage }

\* fill_result.fill_time or datetime.now()
LiveNow == [hour |-> 13, minute |-> 25]

\* get_futures_kbars_with_timeframe(..., days=15): enough bars for the MACD
LiveKBars(time, cross, consecutive_weak) ==
    KBarList(FirstIndex + NumBars, time, cross, consecutive_weak)

\* an except clause that goes on with the next pass after an Exception
except_continue(error) ==
    IF error = "KeyboardInterrupt" THEN "stopped" ELSE "wait"

\* except KeyboardInterrupt: break / except Exception: print(...); break
except_clause(error) == "stopped"

NewLive ==
    [pc |-> "loop", kbar_time |-> 1, calls |-> << >>, last_position |-> << >>,
     kbar_list |-> << >>, error |-> "none"]

InitLive ==
    /\ config = DriverConfig
    /\ pm = NewPositionManager(TRUE)
    /\ next_uuid = 1
    /\ drv = NewLive
    /\ executor = NoExecutor
    /\ fn = NoFn
    /\ strategy = NoStrategy

\* st is [pm, calls, last_position, fill_result]; the returned fill_result
\* is the fill price, or None for a failed order
_execute_action(st, action, outcome) ==
    LET st1 == [st EXCEPT
                  !.calls = Append(@,
                      [Called("execute", outcome.fill_price,
                              action.order_type, << action >>)
                         EXCEPT !.success = outcome.success]),
                  !.fill_result = outcome.fill_price]
    IN  IF outcome.success /\ outcome.fill_price /= None
        THEN IF action.order_type = "Close" /\ action.leg_id /= NoLeg
             THEN FillLegs(st1, << action.leg_id >>, 1, outcome.fill_price,
                           LiveNow, Get(action.metadata, "exit_reason", "SL"))
             ELSE IF action.order_type = "Close"
                     /\ "leg_ids" \in DOMAIN action.metadata
             THEN FillLegs(st1, action.metadata["leg_ids"], 1,
                           outcome.fill_price, LiveNow,
                           Get(action.metadata, "exit_reason", "FS"))
             ELSE st1
        ELSE [st1 EXCEPT !.fill_result = None]

\* for action in actions: self._execute_action(action)
RECURSIVE ExecuteActions(_, _, _, _)
ExecuteActions(st, actions, outcomes, k) ==
    IF k > Len(actions) THEN st
    ELSE ExecuteActions(_execute_action(st, actions[k], outcomes[k]),
                        actions, outcomes, k + 1)

\* the latest bar of the fetched list is the one seen last or a newer one
LaterTimes(t) == {t2 \in t..(t + 1) : t2 <= MaxKBarTime}

\* the results execute can give for each order of `actions`
OutcomeLists(actions, price) ==
    {o \in [DOMAIN actions ->
              UNION {Outcomes(price, actions[k]) : k \in DOMAIN actions}] :
        \A k \in DOMAIN actions : o[k] \in Outcomes(price, actions[k])}

\* one pass of the loop with a position: on_price_update, then each order
LiveMonitor ==
    /\ drv.pc = "loop"
    /\ has_position(pm)
    /\ \E current_price \in BarPrices, time \in LaterTimes(drv.kbar_time),
          cross \in {"none", "death", "golden"}, weak \in WeakCounts(pm),
          current_time \in Times :
       \E r \in {on_price_update(pm, config, current_price,
                                  << LiveKBars(time, cross, weak) >>)} :
        LET st0 == [pm |-> r.pm,
                    calls |-> << [Called("on_price_update", current_price,
                                         "", << >>)
                                    EXCEPT !.time = << current_time >>] >>,
                    last_position |-> << >>, fill_result |-> None]
        IN  \E outcomes \in OutcomeLists(r.actions, current_price) :
              \E st \in {IF r.raised THEN st0
                         ELSE ExecuteActions(st0, r.actions, outcomes, 1)} :
                  /\ pm' = st.pm
                  /\ drv' = [drv EXCEPT
                               !.pc = IF r.raised
                                      THEN except_clause("Exception")
                                      ELSE "wait",
                               !.error = IF r.raised THEN "Exception"
                                         ELSE "none",
                               !.kbar_time = time,
                               !.kbar_list = << LiveKBars(time, cross, weak) >>,
                               !.calls = st.calls,
                               !.last_position = st.last_position]
    /\ UNCHANGED <<strategy, config, next_uuid, executor, fn>>

\* one pass of the loop without a position: evaluate, on_signal, then the
\* Open order; a fill overwrites the entry price and the price tracking
LiveSignal ==
    /\ drv.pc = "loop"
    /\ ~has_position(pm)
    /\ \E current_price \in BarPrices, time \in LaterTimes(drv.kbar_time) :
       \E signal \in Evaluations([close |-> current_price]) :
       \E r \in {on_signal(pm, config, signal, LiveKBars(time, "none", 0),
                             next_uuid)} :
        LET st0 == [pm |-> r.pm,
                    calls |-> << Called("on_signal", current_price,
                                        signal.signal_type, << >>) >>,
                    last_position |-> << >>, fill_result |-> None]
        IN  /\ r.actions /= << >> => next_uuid <= MaxPositions
            /\ \E outcomes \in OutcomeLists(r.actions, current_price) :
                 \E st \in {IF r.raised THEN st0
                            ELSE ExecuteActions(st0, r.actions, outcomes, 1)} :
                 LET filled == /\ ~r.raised
                               /\ r.actions /= << >>
                               /\ st.fill_result /= None
                               /\ r.actions[1].order_type = "Open"
                               /\ st.pm.position /= << >>
                 IN  /\ pm' = IF filled
                              THEN [st.pm EXCEPT
                                      !.position[1].entry_price =
                                          st.fill_result,
                                      !.position[1].highest_price =
                                          st.fill_result,
                                      !.position[1].lowest_price =
                                          st.fill_result]
                              ELSE st.pm
                     /\ drv' = [drv EXCEPT
                                  !.pc = IF r.raised
                                         THEN except_clause("Exception")
                                         ELSE "wait",
                                  !.error = IF r.raised THEN "Exception"
                                            ELSE "none",
                                  !.kbar_time = time,
                                  !.calls = st.calls,
                                  !.last_position = st.last_position]
                     /\ next_uuid' = IF r.actions /= << >>
                                     THEN next_uuid + 1 ELSE next_uuid
    /\ UNCHANGED <<strategy, config, executor, fn>>

\* wait_seconds / calculate_and_wait_to_next_execution, then the next pass
LiveWait ==
    /\ drv.pc = "wait"
    /\ drv' = [drv EXCEPT !.pc = "loop", !.calls = << >>,
                          !.last_position = << >>, !.kbar_list = << >>,
                          !.error = "none"]
    /\ UNCHANGED <<strategy, config, pm, next_uuid, executor, fn>>

\* a pass that raises before any order: no real-time quote or a failing bar
\* fetch (Exception), or the user's interrupt (KeyboardInterrupt)
LiveStop ==
    /\ drv.pc = "loop"
    /\ \E error \in {"Exception", "KeyboardInterrupt"} :
         drv' = [drv EXCEPT !.pc = except_clause(error), !.error = error]
    /\ UNCHANGED <<strategy, config, pm, next_uuid, executor, fn>>

NextLive == LiveMonitor \/ LiveSignal \/ LiveWait \/ LiveStop

SpecLive == InitLive /\ [][NextLive]_vars

\* both drivers of the PositionManager
InitDrivers == InitBT \/ InitLive

NextDrivers == NextBT \/ NextLive

SpecDrivers == InitDrivers /\ [][NextDrivers]_vars

\* ------------------------------------------- strategies/orb_strategy.py

ORBPriceBase == 90
ORBPriceStep == 10
ORBPriceLevels == 3
MaxDate == 2
MaxTime == 8
MaxEntries == 2
PullbackTimeout == 2

\* `if self._or_range is not None and self._or_range < 10`
MinORRange == 10

ORBPrices == {ORBPriceBase + ORBPriceStep * n : n \in 0..ORBPriceLevels}

Dates == 1..MaxDate

\* the times of day: 0 is before the day session; with the parameters below
\* MaxTime - 1 is in the session and past entry_end_time, MaxTime is the
\* session's end
TimesOfDay == 0..MaxTime

Maximum(a, b) == IF a >= b THEN a ELSE b

Minimum(a, b) == IF a <= b THEN a ELSE b

\* the constructor: the parameters (fractions in hundredths, RVOL and ADX in
\* tenths) and the daily state
ORBStrategy(max_entries_per_day, long_only, use_ema_direction, adx_threshold) ==
    [name |-> "ORB Strategy",
     or_bars |-> 2, or_start_time |-> 1,
     entry_end_time |-> MaxTime - 2, session_end_time |-> MaxTime,
     strong_rvol |-> 15, strong_candle |-> 70,
     retest_tolerance_pct |-> 30,
     pullback_timeout_bars |-> PullbackTimeout,
     min_bounce_strength |-> 55,
     long_only |-> long_only, adx_threshold |-> adx_threshold,
     max_entries_per_day |-> max_entries_per_day,
     use_ema_direction |-> use_ema_direction,
     _current_date |-> None,
     _or_high |-> None, _or_low |-> None, _or_mid |-> None,
     _or_range |-> None, _or_calculated |-> FALSE,
     _long_trades_today |-> 0, _short_trades_today |-> 0,
     _long_state |-> "IDLE", _short_state |-> "IDLE",
     _long_bars_since_breakout |-> 0, _short_bars_since_breakout |-> 0,
     _daily_adx |-> None, _daily_direction |-> "both"]

_reset_daily_state(s) ==
    [s EXCEPT !._or_high = None, !._or_low = None, !._or_mid = None,
              !._or_range = None, !._or_calculated = FALSE,
              !._long_trades_today = 0, !._short_trades_today = 0,
              !._long_state = "IDLE", !._short_state = "IDLE",
              !._long_bars_since_breakout = 0,
              !._short_bars_since_breakout = 0,
              !._daily_adx = None, !._daily_direction = "both"]

_is_day_session(s, t) == s.or_start_time <= t /\ t < s.session_end_time

_is_in_trading_window_any_time(s, t) == s._or_calculated

_is_in_trading_window(s, t) == s._or_calculated /\ t <= s.entry_end_time

\* a KBarList as the strategy reads it: its length (up to 2), the date and
\* time of its latest bar, the count of the day-session bars of that date
\* (up to or_bars + 1) with the high and low of the first or_bars of them,
\* the latest bar, and what the indicator service computes from the list
\* (rvol, adx, the side of the opening price to the EMA) and what the entry
\* filters answer
ORBKBarList(summary, kbar, rvol, adx, ema_side, filters_reject) ==
    [len |-> summary.len, date |-> summary.date, time |-> summary.time,
     today |-> summary.today,
     first_high |-> summary.first_high, first_low |-> summary.first_low,
     latest |-> kbar, rvol |-> rvol, adx |-> adx, ema_side |-> ema_side,
     filters_reject |-> filters_reject]

\* services/indicator_service.py: candle_strength, in hundredths
candle_strength(kbar) ==
    IF kbar.high - kbar.low <= 0 THEN 50
    ELSE ((kbar.close - kbar.low) * 100) \div (kbar.high - kbar.low)

\* [strategy, returned]
_try_calculate_or(s, kbar_list) ==
    LET today == IF kbar_list.date = s._current_date THEN kbar_list.today
                 ELSE 0
        s1 == [s EXCEPT
                 !._or_high = kbar_list.first_high,
                 !._or_low = kbar_list.first_low,
                 !._or_mid = (kbar_list.first_high + kbar_list.first_low)
                                \div 2,
                 !._or_range = kbar_list.first_high - kbar_list.first_low,
                 !._or_calculated = TRUE,
                 !._daily_adx = kbar_list.adx]
        s2 == IF s.use_ema_direction /\ kbar_list.ema_side /= "none"
              THEN [s1 EXCEPT !._daily_direction = kbar_list.ema_side]
              ELSE s1
    IN  IF s._current_date = None \/ today < s.or_bars
        THEN [strategy |-> s, returned |-> FALSE]
        ELSE [strategy |-> s2, returned |-> TRUE]

_check_adx_filter(s) ==
    IF s.adx_threshold = None THEN TRUE
    ELSE IF s._daily_adx = None THEN TRUE
    ELSE s._daily_adx >= s.adx_threshold

_classify_breakout(s, kbar_list, is_long) ==
    LET rvol_ok == kbar_list.rvol /= None /\ kbar_list.rvol >= s.strong_rvol
        strength == candle_strength(kbar_list.latest)
        candle_ok == IF is_long THEN strength >= s.strong_candle
                     ELSE 100 - strength >= s.strong_candle
    IN  rvol_ok /\ candle_ok

\* the rejection of the entry filters (VWAP, pressure space, direction
\* bias): TRUE when one of them rejects
_run_filters(s, kbar_list, close, is_long) == kbar_list.filters_reject

\* `self._long_trades_today >= self.max_entries_per_day`
entries_unlimited(s, trades_today) == FALSE

entries_exhausted(s, trades_today) == trades_today >= s.max_entries_per_day

\* `self._long_bars_since_breakout > self.pullback_timeout_bars`
pullback_timed_out_late(s, bars_since_breakout) ==
    bars_since_breakout > 2 * s.pullback_timeout_bars + 1

pullback_timed_out(s, bars_since_breakout) ==
    bars_since_breakout > s.pullback_timeout_bars

\* a retest zone that is the level alone
tolerance_none(s) == 0

tolerance_of(s) == (s.retest_tolerance_pct * s._or_range) \div 100

\* [strategy, signal]: signal is << >> for None or << signal_type >>
_update_long_state(s, kbar_list, close) ==
    LET or_high == s._or_high
        or_mid == s._or_mid
        tolerance == tolerance_of(s)
        latest_kbar == kbar_list.latest
        none(s1) == [strategy |-> s1, signal |-> << >>]
        counted == [s EXCEPT !._long_bars_since_breakout = @ + 1]
    IN  IF entries_exhausted(s, s._long_trades_today) \/ s._or_high = None
        THEN none(s)
        ELSE IF s._long_state = "IDLE"
        THEN IF close > or_high
             THEN IF _classify_breakout(s, kbar_list, TRUE)
                  THEN IF _run_filters(s, kbar_list, close, TRUE)
                       THEN none(s)
                       ELSE [strategy |->
                                [s EXCEPT !._long_trades_today = @ + 1],
                             signal |-> << "ENTRY_LONG" >>]
                  ELSE none([s EXCEPT
                               !._long_state = "WAITING_PULLBACK",
                               !._long_bars_since_breakout = 0])
             ELSE none(s)
        ELSE IF s._long_state = "WAITING_PULLBACK"
        THEN IF pullback_timed_out(s, counted._long_bars_since_breakout)
             THEN none([counted EXCEPT !._long_state = "IDLE"])
             ELSE IF close < or_mid
             THEN none([counted EXCEPT !._long_state = "IDLE"])
             ELSE IF or_high - tolerance <= close
                     /\ close <= or_high + tolerance
             THEN none([counted EXCEPT !._long_state = "TESTING_LEVEL"])
             ELSE none(counted)
        ELSE IF s._long_state = "TESTING_LEVEL"
        THEN IF pullback_timed_out(s, counted._long_bars_since_breakout)
             THEN none([counted EXCEPT !._long_state = "IDLE"])
             ELSE IF close < or_mid
             THEN none([counted EXCEPT !._long_state = "IDLE"])
             ELSE IF close > or_high
                     /\ candle_strength(latest_kbar) >= s.min_bounce_strength
             THEN IF _run_filters(s, kbar_list, close, TRUE)
                  THEN none(counted)
                  ELSE [strategy |->
                           [counted EXCEPT !._long_trades_today = @ + 1,
                                           !._long_state = "IDLE"],
                        signal |-> << "ENTRY_LONG" >>]
             ELSE IF close < or_high - tolerance
             THEN none([counted EXCEPT !._long_state = "WAITING_PULLBACK"])
             ELSE none(counted)
        ELSE none(s)

_update_short_state(s, kbar_list, close) ==
    LET or_low == s._or_low
        or_mid == s._or_mid
        tolerance == tolerance_of(s)
        latest_kbar == kbar_list.latest
        none(s1) == [strategy |-> s1, signal |-> << >>]
        counted == [s EXCEPT !._short_bars_since_breakout = @ + 1]
    IN  IF entries_exhausted(s, s._short_trades_today) \/ s._or_low = None
        THEN none(s)
        ELSE IF s._short_state = "IDLE"
        THEN IF close < or_low
             THEN IF _classify_breakout(s, kbar_list, FALSE)
                  THEN IF _run_filters(s, kbar_list, close, FALSE)
                       THEN none(s)
                       ELSE [strategy |->
                                [s EXCEPT !._short_trades_today = @ + 1],
                             signal |-> << "ENTRY_SHORT" >>]
                  ELSE none([s EXCEPT
                               !._short_state = "WAITING_PULLBACK",
                               !._short_bars_since_breakout = 0])
             ELSE none(s)
        ELSE IF s._short_state = "WAITING_PULLBACK"
        THEN IF pullback_timed_out(s, counted._short_bars_since_breakout)
             THEN none([counted EXCEPT !._short_state = "IDLE"])
             ELSE IF close > or_mid
             THEN none([counted EXCEPT !._short_state = "IDLE"])
             ELSE IF or_low - tolerance <= close
                     /\ close <= or_low + tolerance
             THEN none([counted EXCEPT !._short_state = "TESTING_LEVEL"])
             ELSE none(counted)
        ELSE IF s._short_state = "TESTING_LEVEL"
        THEN IF pullback_timed_out(s, counted._short_bars_since_breakout)
             THEN none([counted EXCEPT !._short_state = "IDLE"])
             ELSE IF close > or_mid
             THEN none([counted EXCEPT !._short_state = "IDLE"])
             ELSE IF close < or_low
                     /\ 100 - candle_strength(latest_kbar)
                          >= s.min_bounce_strength
             THEN IF _run_filters(s, kbar_list, close, FALSE)
                  THEN none(counted)
                  ELSE [strategy |->
                           [counted EXCEPT !._short_trades_today = @ + 1,
                                           !._short_state = "IDLE"],
                        signal |-> << "ENTRY_SHORT" >>]
             ELSE IF close > or_low + tolerance
             THEN none([counted EXCEPT !._short_state = "WAITING_PULLBACK"])
             ELSE none(counted)
        ELSE none(s)

\* [strategy, signal_type, calls]: calls names the methods that ran
evaluate(s, kbar_list) ==
    LET bar_date == kbar_list.date
        bar_time == kbar_list.time
        hold(s1, calls) ==
            [strategy |-> s1, signal_type |-> "HOLD", calls |-> calls]
        new_day == s._current_date = None \/ bar_date /= s._current_date
        s1 == IF new_day
              THEN [_reset_daily_state(s) EXCEPT !._current_date = bar_date]
              ELSE s
        calls1 == IF new_day THEN << "_reset_daily_state" >> ELSE << >>
        calc == _try_calculate_or(s1, kbar_list)
        in_window == _is_in_trading_window(s1, bar_time)
        close == kbar_list.latest.close
        allow_long == s1._daily_direction \in {"long", "both"} \/ s1.long_only
        allow_short == s1._daily_direction \in {"short", "both"}
                       /\ ~s1.long_only
        long == IF in_window /\ allow_long
                THEN _update_long_state(s1, kbar_list, close)
                ELSE [strategy |-> s1, signal |-> << >>]
        calls2 == IF in_window /\ allow_long
                  THEN Append(calls1, "_update_long_state") ELSE calls1
        short == IF in_window /\ allow_short
                 THEN _update_short_state(long.strategy, kbar_list, close)
                 ELSE [strategy |-> long.strategy, signal |-> << >>]
        calls3 == IF in_window /\ allow_short
                  THEN Append(calls2, "_update_short_state") ELSE calls2
    IN  IF kbar_list.len < 2 THEN hold(s, << >>)
        ELSE IF ~_is_day_session(s1, bar_time) THEN hold(s1, calls1)
        ELSE IF ~s1._or_calculated
        THEN hold(calc.strategy,
                  Append(calls1, IF calc.returned THEN "_try_calculate_or"
                                 ELSE "_try_calculate_or: False"))
        ELSE IF s1._or_range /= None /\ s1._or_range < MinORRange
        THEN hold(s1, calls1)
        ELSE IF ~_check_adx_filter(s1) THEN hold(s1, calls1)
        ELSE IF long.signal /= << >>
        THEN [strategy |-> long.strategy, signal_type |-> long.signal[1],
              calls |-> calls2]
        ELSE IF short.signal /= << >>
        THEN [strategy |-> short.strategy, signal_type |-> short.signal[1],
              calls |-> calls3]
        ELSE hold(short.strategy, calls3)

\* ---------------------------------------- the strategy under its callers

\* the list before its first bar
NoKBars ==
    [len |-> 0, date |-> None, time |-> None, today |-> 0,
     first_high |-> None, first_low |-> None]

\* the list with one more bar, later than its latest
AppendBar(s, summary, bar_date, bar_time, kbar) ==
    LET same_day == summary.date = bar_date
        today == IF same_day THEN summary.today ELSE 0
        in_session == s.or_start_time <= bar_time
                      /\ bar_time < s.session_end_time
        first == in_session /\ today < s.or_bars
    IN  [len |-> Minimum(summary.len + 1, 2),
         date |-> bar_date, time |-> bar_time,
         today |-> IF in_session THEN Minimum(today + 1, s.or_bars + 1)
                   ELSE today,
         first_high |-> IF first
                        THEN (IF today = 0 THEN kbar.high
                              ELSE Maximum(summary.first_high, kbar.high))
                        ELSE IF same_day THEN summary.first_high ELSE None,
         first_low |-> IF first
                       THEN (IF today = 0 THEN kbar.low
                             ELSE Minimum(summary.first_low, kbar.low))
                       ELSE IF same_day THEN summary.first_low ELSE None]

\* the date and time of the bar after the latest: the next time of the
\* date, or after the last one the first of the next date
NextBarTimes(summary) ==
    IF summary.date = None THEN {[date |-> 1, time |-> 0]}
    ELSE IF summary.time < MaxTime
    THEN {[date |-> summary.date, time |-> summary.time + 1]}
    ELSE {[date |-> d, time |-> 0] : d \in {summary.date + 1} \cap Dates}

\* the bars: flat, or one price step high
ORBBars ==
    { b \in [high : ORBPrices, low : ORBPrices, close : ORBPrices] :
        /\ b.low <= b.close /\ b.close <= b.high
        /\ b.high - b.low <= ORBPriceStep }

\* the strategies a unit can hold
ORBStrategies ==
    { ORBStrategy(m, FALSE, FALSE, None) : m \in 1..MaxEntries }
    \cup { ORBStrategy(1, long_only, TRUE, 20) : long_only \in BOOLEAN }

\* the caller's record: the bars so far, whether the strategy is being
\* asked (not before the caller starts, nor while it holds a position), what
\* the last evaluate returned and called, the entry signals returned on the
\* bars of the latest date, the updates of each direction since its weak
\* breakout, and the bars from which the date's opening range was computed
NewORBDriver ==
    [pc |-> "orb", kbar_list |-> NoKBars, asking |-> FALSE,
     result |-> << >>, calls |-> << >>,
     entries |-> [long |-> 0, short |-> 0],
     updates |-> [long |-> None, short |-> None],
     or_from |-> << >>]

InitORB ==
    /\ config = DriverConfig
    /\ pm = NewPositionManager(TRUE)
    /\ next_uuid = 1
    /\ drv = NewORBDriver
    /\ executor = NoExecutor
    /\ fn = NoFn
    /\ strategy \in ORBStrategies

InSeq(seq, x) == \E k \in DOMAIN seq : seq[k] = x

UpdatesSince(before, after, invoked, updates) ==
    IF after = "IDLE" THEN None
    ELSE IF before = "IDLE" THEN 0
    ELSE IF invoked THEN updates + 1
    ELSE updates

\* a bar on which the strategy is not asked: the caller has not started,
\* or it holds the position of the last entry signal
ORBBarWithoutEvaluate ==
    /\ drv.pc = "orb"
    /\ ~drv.asking
    /\ \E at \in NextBarTimes(drv.kbar_list), kbar \in ORBBars :
        drv' = [drv EXCEPT
                  !.kbar_list = AppendBar(strategy, @, at.date, at.time, kbar),
                  !.result = << >>, !.calls = << >>,
                  !.entries = IF at.date = drv.kbar_list.date THEN @
                              ELSE [long |-> 0, short |-> 0],
                  !.or_from = IF at.date = drv.kbar_list.date THEN @
                              ELSE << >>]
    /\ UNCHANGED <<strategy, config, pm, next_uuid, executor, fn>>

\* the opening range of the date of the bar at `at` is computed: only then
\* does evaluate read the RVOL and the filters, and only before that the
\* ADX and the EMA
ORBRangeKnown(at) ==
    strategy._or_calculated /\ at.date = strategy._current_date

\* strategy.evaluate on the list with a new latest bar
ORBEvaluate ==
    /\ drv.pc = "orb"
    /\ \E at \in NextBarTimes(drv.kbar_list), kbar \in ORBBars :
       \E rvol \in IF ORBRangeKnown(at) THEN {None, 20} ELSE {None},
          filters_reject \in IF ORBRangeKnown(at) THEN BOOLEAN ELSE {FALSE},
          adx \in IF strategy.adx_threshold = None \/ ORBRangeKnown(at)
                  THEN {None} ELSE {None, 10, 30},
          ema_side \in IF strategy.use_ema_direction /\ ~ORBRangeKnown(at)
                       THEN {"long", "short"} ELSE {"none"} :
       \E list \in {AppendBar(strategy, drv.kbar_list, at.date, at.time,
                              kbar)} :
       \E r \in {evaluate(strategy,
                          ORBKBarList(list, kbar, rvol, adx, ema_side,
                                      filters_reject))} :
          LET same_day == at.date = drv.kbar_list.date
              entries == IF same_day THEN drv.entries
                         ELSE [long |-> 0, short |-> 0]
          IN
          /\ strategy' = r.strategy
          /\ drv' = [drv EXCEPT
                  !.kbar_list = list,
                  !.asking = r.signal_type = "HOLD",
                  !.result = << [signal_type |-> r.signal_type,
                                 date |-> at.date, time |-> at.time] >>,
                  !.calls = r.calls,
                  !.entries =
                      [long |-> entries.long
                          + IF r.signal_type = "ENTRY_LONG" THEN 1 ELSE 0,
                       short |-> entries.short
                          + IF r.signal_type = "ENTRY_SHORT" THEN 1 ELSE 0],
                  !.updates =
                      [long |-> UpdatesSince(strategy._long_state,
                                    r.strategy._long_state,
                                    InSeq(r.calls, "_update_long_state"),
                                    drv.updates.long),
                       short |-> UpdatesSince(strategy._short_state,
                                    r.strategy._short_state,
                                    InSeq(r.calls, "_update_short_state"),
                                    drv.updates.short)],
                  !.or_from =
                      IF InSeq(r.calls, "_try_calculate_or")
                      THEN << [date |-> list.date, bars |-> list.today] >>
                      ELSE IF same_day THEN @ ELSE << >>]
    /\ UNCHANGED <<config, pm, next_uuid, executor, fn>>

NextORB == ORBBarWithoutEvaluate \/ ORBEvaluate

SpecORB == InitORB /\ [][NextORB]_vars

\* ------------------------------------------------------------- properties

SamePosition ==
    /\ pm.position /= <<>>
    /\ pm'.position /= <<>>
    /\ pm'.position[1].position_id = pm.position[1].position_id

\* C1: once a leg's trailing stop is active it stays active and carries a
\* price, and in every step that keeps the position the leg's
\* trailing_stop_price does not decrease for a long position and does not
\* increase for a short one
C1_TrailingStopMonotonic ==
    [][SamePosition =>
         \A k \in DOMAIN pm.position[1].legs :
            LET before == pm.position[1].legs[k].exit_rule
                after == pm'.position[1].legs[k].exit_rule
            IN  before.trailing_stop_active =>
                  /\ after.trailing_stop_active
                  /\ before.trailing_stop_price /= None
                  /\ after.trailing_stop_price /= None
                  /\ pm.position[1].direction = "Buy" =>
                        after.trailing_stop_price >= before.trailing_stop_price
                  /\ pm.position[1].direction = "Sell" =>
                        after.trailing_stop_price <= before.trailing_stop_price
      ]_vars

\* a long position whose trailing leg is active and has been tightened, and
\* a short position that broke every key level and trails dynamically
C1_Witness ==
    /\ has_position(pm)
    /\ pm.position[1].direction = "Buy"
    /\ \E k \in DOMAIN pm.position[1].legs :
          /\ pm.position[1].legs[k].status = "OPEN"
          /\ pm.position[1].legs[k].exit_rule.trailing_stop_active
          /\ pm.position[1].legs[k].exit_rule.is_tightened
          /\ pm.position[1].legs[k].exit_rule.trailing_stop_price
                > pm.position[1].entry_price

\* C2: on_signal with HOLD, or with an entry signal while a position is held,
\* returns no action and leaves the manager as it was; and no step replaces
\* the position_id of a held position by another one
C2_SignalWhileHoldingIsNoOp ==
    /\ [](\A c \in SignalCalls :
            (c.signal.signal_type = "HOLD"
             \/ (c.signal.signal_type \in {"ENTRY_LONG", "ENTRY_SHORT"}
                 /\ has_position(pm)))
            => on_signal(pm, config, c.signal, c.kbar_list, next_uuid)
                 = [pm |-> pm, actions |-> << >>, raised |-> FALSE])
    /\ [][has_position(pm) /\ pm'.position /= <<>>
            => pm'.position[1].position_id = pm.position[1].position_id]_vars

\* a partially closed position is held, opened by on_signal, and the caller
\* goes on sending HOLD and entry signals
C2_Witness ==
    /\ has_position(pm)
    /\ pm.position[1].status = "PARTIALLY_CLOSED"
    /\ pm.position[1].position_id = 1
    /\ next_uuid = 2

\* C4: a closed leg stays closed with its exit_price, exit_time and
\* exit_reason: no step of the manager changes them, and on_fill with any
\* leg_id, price, time and reason returns the position with every closed leg
\* as it was
C4_LegClosesOnce ==
    /\ [](\A id \in LegIds, p \in {PriceBase, PriceBase + 1}, t \in 1..2,
              r \in {ExitReason.STOP_LOSS, ExitReason.TAKE_PROFIT} :
            LET after == on_fill(pm, id, p, t, r)
            IN  (pm.position /= <<>> /\ after.position /= <<>>) =>
                  \A k \in DOMAIN pm.position[1].legs :
                     pm.position[1].legs[k].status = "CLOSED" =>
                        after.position[1].legs[k] = pm.position[1].legs[k])
    /\ [][SamePosition =>
            \A k \in DOMAIN pm.position[1].legs :
               pm.position[1].legs[k].status = "CLOSED" =>
                  pm'.position[1].legs[k] = pm.position[1].legs[k]]_vars

\* on_fill has closed one leg of a held position, whose other leg is open:
\* any further on_fill meets this closed leg
C4_Witness ==
    /\ has_position(pm)
    /\ pm.position[1].status = "PARTIALLY_CLOSED"
    /\ \E k \in DOMAIN pm.position[1].legs :
          /\ pm.position[1].legs[k].status = "CLOSED"
          /\ pm.position[1].legs[k].exit_price = PriceBase
          /\ pm.position[1].legs[k].exit_reason = "SL"

\* the fill price the table gives for a call
FillPriceTable(c) ==
    IF c.exit_reason = "FS" THEN c.kbar.open
    ELSE IF c.trigger_price = None THEN c.kbar.close
    ELSE IF c.exit_reason = "TP"
    THEN IF c.is_long
         THEN IF c.kbar.open >= c.trigger_price THEN c.kbar.open
              ELSE c.trigger_price
         ELSE IF c.kbar.open <= c.trigger_price THEN c.kbar.open
              ELSE c.trigger_price
    ELSE IF c.exit_reason \in {"SL", "TS"}
    THEN IF c.is_long
         THEN IF c.kbar.open <= c.trigger_price THEN c.kbar.open
              ELSE c.trigger_price
         ELSE IF c.kbar.open >= c.trigger_price THEN c.kbar.open
              ELSE c.trigger_price
    ELSE c.kbar.close

\* C7: every call of _calculate_fill_price returns the price of the table
\* (open for FastStop; open or trigger for TakeProfit, StopLoss and
\* TrailingStop according to the gap; close for any other reason or a
\* missing trigger price) and never raises
C7_FillPriceTable ==
    fn.returned =>
        /\ ~fn.raised
        /\ fn.value = FillPriceTable(fn)

\* the calls that do follow the table: every reason among FS, TP, SL and TS,
\* and every reason without a trigger price
C7_TableWhenReached ==
    (fn.returned
     /\ (fn.exit_reason \in {"FS", "TP", "SL", "TS"} \/ fn.trigger_price = None))
    => (~fn.raised /\ fn.value = FillPriceTable(fn))

\* C8 as stated: construction, direct or through from_dict, raises exactly
\* when tp_leg_quantity + ts_leg_quantity differs from total_quantity
C8_FailsIffSumDiffers ==
    fn.returned =>
        (fn.raised <=> fn.tp_leg_quantity + fn.ts_leg_quantity
                          /= fn.total_quantity)

\* C8: direct construction raises exactly when tp_leg_quantity +
\* ts_leg_quantity differs from total_quantity; from_dict raises exactly
\* when a required trading key is missing or the quantities it passes on
\* (total_quantity default 1, tp_leg_quantity default 0, ts_leg_quantity
\* default total_quantity) differ in that way; and the configuration in use
\* always satisfies the equality
C8_FailsIffSumDiffersOrKeyMissing ==
    /\ config.tp_leg_quantity + config.ts_leg_quantity = config.total_quantity
    /\ fn.returned =>
          (fn.raised <=>
              \/ fn.missing_keys /= {}
              \/ fn.tp_leg_quantity + fn.ts_leg_quantity /= fn.total_quantity)

\* from_dict was given every required key and quantities 1 + 1 = 2 and built
\* the configuration now in use
C8_Witness ==
    /\ fn.f = "from_dict"
    /\ fn.returned
    /\ ~fn.raised
    /\ fn.missing_keys = {}
    /\ fn.tp_leg_quantity = 1
    /\ fn.ts_leg_quantity = 1
    /\ config.total_quantity = 2

\* C5: in the backtest driver an entry signal evaluated at bar i is held back
\* (nothing is opened at bar i), is consumed at bar i + 1, and opens the
\* position at bar[i + 1].open + slippage for a long and bar[i + 1].open -
\* slippage for a short; no later step (the high, low and close of bar
\* i + 1, any later bar) changes that entry price
C5_EntryFilledAtNextOpen ==
    /\ [](drv.deferred_signal /= << >> =>
            /\ drv.pc \in {"step4", "step1", "done"}
            /\ ~has_position(pm)
            /\ drv.signal_bar = IF drv.pc = "step4" THEN drv.i ELSE drv.i - 1)
    /\ [](drv.pc = "step2" /\ drv.entry /= << >> =>
            LET e == drv.entry[1]
                kbar == drv.kbar[1]
                expected == IF e.direction = "Buy"
                            THEN kbar.open + executor.slippage_points
                            ELSE kbar.open - executor.slippage_points
            IN  /\ e.signal_bar = drv.i - 1
                /\ e.opened
                /\ has_position(pm)
                /\ pm.position[1].direction = e.direction
                /\ pm.position[1].entry_price = expected
                /\ drv.pending_entry_price = expected)
    /\ [][/\ SamePosition =>
               pm'.position[1].entry_price = pm.position[1].entry_price
          /\ (drv.pending_entry_price /= None
              /\ drv'.pending_entry_price /= None) =>
               drv'.pending_entry_price = drv.pending_entry_price]_vars

\* a short entry deferred from the bar before was filled one point of
\* slippage under the open of its bar, a price the bar itself never traded at
C5_Witness ==
    /\ drv.pc = "step4"
    /\ drv.entry /= << >>
    /\ drv.entry[1].direction = "Sell"
    /\ executor.slippage_points = 1
    /\ has_position(pm)
    /\ drv.kbar[1].open = PriceBase + BarStep
    /\ drv.kbar[1].low = PriceBase
    /\ pm.position[1].entry_price = PriceBase + BarStep - 1

\* the calls of a bar's record with the given name
CallsOf(calls, op) == {k \in DOMAIN calls : calls[k].op = op}

\* C6: in the backtest driver, when bar i + 1 fills a deferred entry, the
\* Open order is executed before every check_time_exit and on_price_update
\* call of that bar, the bar does run its exit checks (the time exit first),
\* and a bar whose checks return no order and do not raise has run all of
\* them on the new position: time exit, open, adverse extreme, favourable
\* extreme, close
C6_EntryBeforeExitChecks ==
    (drv.pc \in {"step4", "raised"} /\ drv.entry /= << >>) =>
        LET calls == drv.calls
            opens == {k \in CallsOf(calls, "execute") : calls[k].detail = "Open"}
            checks == CallsOf(calls, "check_time_exit")
                      \cup CallsOf(calls, "on_price_update")
            updates == CallsOf(calls, "on_price_update")
            kbar == drv.kbar[1]
            long == drv.entry[1].direction = "Buy"
        IN  /\ Cardinality(opens) = 1
            /\ \A o \in opens, c \in checks : o < c
            /\ Cardinality(CallsOf(calls, "check_time_exit")) = 1
            /\ \A t \in CallsOf(calls, "check_time_exit"), u \in updates : t < u
            /\ (drv.pc = "step4" /\ CallsOf(calls, "_calculate_fill_price") = {})
                 => /\ Cardinality(updates) = 4
                    /\ \E a, b, c, d \in updates :
                         /\ a < b /\ b < c /\ c < d
                         /\ calls[a].price = kbar.open
                         /\ calls[b].price = IF long THEN kbar.low ELSE kbar.high
                         /\ calls[c].price = IF long THEN kbar.high ELSE kbar.low
                         /\ calls[d].price = kbar.close

\* the bar that filled a long entry went on to close a leg of the new
\* position in the same bar
C6_Witness ==
    /\ drv.pc = "step4"
    /\ drv.entry /= << >>
    /\ drv.entry[1].direction = "Buy"
    /\ CallsOf(drv.calls, "on_fill") /= {}
    /\ CallsOf(drv.calls, "on_price_update") /= {}

\* the price at which the Close order resolved at call k of a bar's record
\* is filled: under the resolved price by the slippage for a Sell, over it
\* for a Buy
SlippedPrice(calls, k) ==
    IF calls[k + 2].action = "Buy"
    THEN calls[k].price + executor.slippage_points
    ELSE calls[k].price - executor.slippage_points

\* the on_fill and trade entries that belong to the Close order resolved at
\* call k: those after k and before the next resolved order
RecordedFor(calls, k) ==
    {j \in CallsOf(calls, "on_fill") \cup CallsOf(calls, "trades.append") :
        /\ j > k
        /\ \A n \in CallsOf(calls, "_calculate_fill_price") : ~(k < n /\ n < j)}

\* C10 as stated: the price recorded by on_fill and in the trade is the price
\* resolved by _calculate_fill_price, whatever slippage_points is
C10_ExitAtResolvedPrice ==
    drv.pc = "step4" =>
        \A k \in CallsOf(drv.calls, "_calculate_fill_price") :
            \A j \in RecordedFor(drv.calls, k) :
                drv.calls[j].price = drv.calls[k].price

\* C10: for every Close order of a backtest bar the executor is set to the
\* price resolved by _calculate_fill_price and execute moves it by
\* slippage_points against the order (down for a Sell, up for a Buy), as it
\* does for entries; on_fill and the trade record that slipped price, which
\* is the resolved price exactly when slippage_points is 0
C10_ExitAtResolvedPriceWithSlippage ==
    drv.pc = "step4" =>
        \A k \in CallsOf(drv.calls, "_calculate_fill_price") :
            /\ drv.calls[k + 1].op = "set_market_state"
            /\ drv.calls[k + 1].price = drv.calls[k].price
            /\ drv.calls[k + 2].op = "execute"
            /\ drv.calls[k + 2].detail = "Close"
            /\ drv.calls[k + 2].price = SlippedPrice(drv.calls, k)
            /\ RecordedFor(drv.calls, k) /= {}
            /\ \A j \in RecordedFor(drv.calls, k) :
                 /\ drv.calls[j].price = SlippedPrice(drv.calls, k)
                 /\ (drv.calls[j].price = drv.calls[k].price
                       <=> executor.slippage_points = 0)
            /\ \E t \in DOMAIN drv.trades :
                 drv.trades[t].exit_price = SlippedPrice(drv.calls, k)

\* with one point of slippage a leg of a long position was closed one point
\* under the resolved price
C10_Witness ==
    /\ drv.pc = "step4"
    /\ executor.slippage_points = 1
    /\ \E k \in CallsOf(drv.calls, "_calculate_fill_price") :
         /\ drv.calls[k + 2].action = "Sell"
         /\ \E j \in RecordedFor(drv.calls, k) :
              /\ drv.calls[j].op = "trades.append"
              /\ drv.calls[j].price = drv.calls[k].price - 1

\* the successful close-all orders (one Close naming its legs in leg_ids) of
\* a record of calls
CloseAllFills(calls) ==
    {k \in CallsOf(calls, "execute") :
        calls[k].detail = "Close" /\ calls[k].leg_ids /= << >>
        /\ calls[k].success}

C3_WitnessBacktest ==
    /\ drv.pc = "step4"
    /\ \E k \in CloseAllFills(drv.calls) :
         /\ drv.calls[k].exit_reason = "FS"
         /\ drv.calls[k].quantity = 2
         /\ drv.calls[k].price = drv.kbar[1].open - executor.slippage_points
    /\ drv.last_position /= << >>
    /\ ~has_position(pm)

\* the orders of a pass of the live loop that execute failed
FailedOrders(calls) == {k \in CallsOf(calls, "execute") : ~calls[k].success}

\* the failed Close orders of the pass left the legs they name open and were
\* not followed by an on_fill for them
FailedCloseLeavesLegsOpen ==
    \A k \in FailedOrders(drv.calls) :
        drv.calls[k].detail = "Close" =>
            LET named == IF drv.calls[k].leg_id /= NoLeg
                         THEN {drv.calls[k].leg_id}
                         ELSE {drv.calls[k].leg_ids[j] :
                                 j \in DOMAIN drv.calls[k].leg_ids}
            IN  /\ has_position(pm)
                /\ \A id \in named :
                     /\ \E n \in open_legs(pm.position[1]) :
                          pm.position[1].legs[n].leg_id = id
                     /\ \A j \in CallsOf(drv.calls, "on_fill") :
                          drv.calls[j].leg_id /= id

\* C9: in the live driver an order for which execute returns success=false
\* is followed by no on_fill, a failed Close leaves every leg it named open,
\* and a failed Open leaves the PositionManager without a position
C9_FailedOrderLeavesStateUntouched ==
    /\ FailedCloseLeavesLegsOpen
    /\ \A k \in FailedOrders(drv.calls) :
         drv.calls[k].detail = "Open" =>
            /\ CallsOf(drv.calls, "on_fill") = {}
            /\ ~has_position(pm)

\* what does hold after a failed Open: no on_fill is called, and the
\* position that on_signal created before the order was sent stays, open
\* and unfilled, at the signal's price
C9_FailedOpenKeepsPosition ==
    /\ FailedCloseLeavesLegsOpen
    /\ \A k \in FailedOrders(drv.calls) :
         drv.calls[k].detail = "Open" =>
            /\ CallsOf(drv.calls, "on_fill") = {}
            /\ has_position(pm)
            /\ pm.position[1].status = "OPEN"
            /\ \E j \in CallsOf(drv.calls, "on_signal") :
                 pm.position[1].entry_price = drv.calls[j].price

\* the entry-derived triggers of every leg of position `pos`, computed from
\* price `base`: take profit (TP leg), start of trailing, tightening threshold
TriggersDerivedFrom(pos, base) ==
    LET sign == IF pos.direction = "Buy" THEN 1 ELSE -1
    IN  \A n \in DOMAIN pos.legs :
          LET rule == pos.legs[n].exit_rule
          IN  /\ rule.take_profit_price /= None =>
                   rule.take_profit_price
                     = base + sign * calculate_points(
                                         config.take_profit_points,
                                         config.take_profit_points_rate, base)
              /\ rule.start_trailing_stop_price
                   = base + sign * config.start_trailing_stop_points
              /\ rule.tighten_after_price /= None =>
                   rule.tighten_after_price
                     = base + sign * calculate_points(
                                         config.tighten_after_points,
                                         config.tighten_after_points_rate,
                                         base)

\* C11: right after the entry fill of a backtest bar, entry_price,
\* highest_price and lowest_price are the realized fill price and every
\* entry-derived trigger of every leg is that entry_price plus or minus the
\* configured points, whatever slippage_points is
C11_TriggersFromRealizedEntry ==
    (drv.pc = "step2" /\ drv.entry /= << >>) =>
        LET pos == pm.position[1]
        IN  /\ pos.entry_price = drv.pending_entry_price
            /\ pos.highest_price = drv.pending_entry_price
            /\ pos.lowest_price = drv.pending_entry_price
            /\ TriggersDerivedFrom(pos, pos.entry_price)

\* what does hold after the entry fill: the three prices are the realized
\* fill (open plus or minus slippage), while the triggers are derived from
\* the bar's open, the price the signal carried into on_signal
C11_TriggersFromOpen ==
    (drv.pc = "step2" /\ drv.entry /= << >>) =>
        LET pos == pm.position[1]
        IN  /\ pos.entry_price = drv.pending_entry_price
            /\ pos.highest_price = drv.pending_entry_price
            /\ pos.lowest_price = drv.pending_entry_price
            /\ TriggersDerivedFrom(pos, drv.kbar[1].open)
            /\ (executor.slippage_points = 0
                  => TriggersDerivedFrom(pos, pos.entry_price))

\* C12: the on_fill that closes the last open leg leaves the manager with no
\* position, has_position false and no remembered fast-stop bar time; the
\* manager never holds a position whose status is CLOSED, and without a
\* position it remembers no bar time; a position opened next (by the driver
\* or by any entry signal given in such a state) starts with
\* is_in_macd_adverse_cross false and with no remembered bar time
C12_ClosedPositionIsDropped ==
    /\ [](/\ pm.position /= << >> => pm.position[1].status /= "CLOSED"
          /\ pm.position = << >> =>
                 pm.last_fast_stop_check_kbar_time = None
          /\ ~has_position(pm) =>
               \A price \in BarPrices :
                 \A signal \in Evaluations([close |-> price]) :
                   LET r == on_signal(pm, config, signal,
                                      LiveKBars(1, "none", 0), next_uuid)
                   IN  r.actions /= << >> =>
                         /\ ~r.pm.position[1].is_in_macd_adverse_cross
                         /\ r.pm.last_fast_stop_check_kbar_time = None)
    /\ [][/\ (has_position(pm) /\ drv'.last_position /= << >>
              /\ drv'.last_position[1].status = "CLOSED") =>
                 /\ pm'.position = << >>
                 /\ ~has_position(pm')
                 /\ pm'.last_fast_stop_check_kbar_time = None
          /\ (pm.position = << >> /\ pm'.position /= << >>) =>
                 /\ ~pm'.position[1].is_in_macd_adverse_cross
                 /\ pm'.last_fast_stop_check_kbar_time = None]_vars

\* an on_fill of the live loop has just closed the last leg of a position
\* that had seen an adverse MACD cross: nothing is held, nothing remembered
C12_Witness ==
    /\ drv.pc = "wait"
    /\ CallsOf(drv.calls, "on_fill") /= {}
    /\ drv.last_position /= << >>
    /\ drv.last_position[1].status = "CLOSED"
    /\ drv.last_position[1].is_in_macd_adverse_cross
    /\ pm.position = << >>
    /\ pm.last_fast_stop_check_kbar_time = None

\* cur_h > exit_h or (cur_h == exit_h and cur_m >= exit_m)
AtOrPastForceExit(t) ==
    /\ config.force_exit_time /= << >>
    /\ \/ t.hour > config.force_exit_time[1]
       \/ (t.hour = config.force_exit_time[1]
           /\ t.minute >= config.force_exit_time[2])

\* the calls of a record that carry the cycle's current time: the
\* check_time_exit of a backtest bar, the on_price_update of a live pass
TimedCalls(calls) == {k \in DOMAIN calls : calls[k].time /= << >>}

\* C13: in both drivers, every cycle that holds a position at or past the
\* configured force_exit_time calls check_time_exit before any
\* on_price_update, and executes the one close-all order with reason
\* TimeExit that the call returns; a cycle at an earlier time executes no
\* TimeExit order
C13_TimeExitFirst ==
    (drv.pc \in {"step4", "raised", "wait", "stopped"}) =>
        \A k \in TimedCalls(drv.calls) :
            IF AtOrPastForceExit(drv.calls[k].time[1])
            THEN /\ \E c \in CallsOf(drv.calls, "check_time_exit") :
                       \A u \in CallsOf(drv.calls, "on_price_update") : c < u
                 /\ \E e \in CallsOf(drv.calls, "execute") :
                       /\ drv.calls[e].detail = "Close"
                       /\ drv.calls[e].exit_reason = "TimeExit"
                       /\ drv.calls[e].leg_ids /= << >>
            ELSE \A e \in CallsOf(drv.calls, "execute") :
                       drv.calls[e].exit_reason /= "TimeExit"

\* the part that holds: check_time_exit returns no action and does not raise
\* when no position is held or the time is earlier than force_exit_time,
\* and at or past that time with a position it raises, ExitReason having no
\* TIME_EXIT member; no cycle of either driver executes a TimeExit order
C13_NoActionBeforeTime ==
    /\ \A t \in Times, p \in BarPrices :
         LET r == check_time_exit(pm, config, t, p)
         IN  IF has_position(pm) /\ AtOrPastForceExit(t)
             THEN r.raised /\ r.actions = << >>
             ELSE ~r.raised /\ r.actions = << >> /\ r.pm = pm
    /\ drv.pc \in {"step4", "raised", "wait", "stopped"} =>
         \A e \in CallsOf(drv.calls, "execute") :
            drv.calls[e].exit_reason /= "TimeExit"

\* the legs named by the order logged at call k
NamedLegs(calls, k) ==
    IF calls[k].leg_id /= NoLeg THEN {calls[k].leg_id}
    ELSE {calls[k].leg_ids[j] : j \in DOMAIN calls[k].leg_ids}

\* the legs named by the Close orders of a list of OrderActions
ClosedBy(actions) ==
    UNION {IF actions[j].leg_id /= NoLeg THEN {actions[j].leg_id}
           ELSE {Get(actions[j].metadata, "leg_ids", << >>)[n] :
                   n \in DOMAIN Get(actions[j].metadata, "leg_ids", << >>)} :
           j \in DOMAIN actions}

\* the next tick of the live loop after the pass just made, at the same
\* price and with the same bars
NextTickSame ==
    on_price_update(pm, config, drv.calls[1].price, drv.kbar_list)

\* C14: in the live driver, after a pass in which the execution of a Close
\* order failed, on_price_update at the same price and with the same bars
\* returns, without raising, Close orders for the legs that order named;
\* for the per-leg exits and for the close-alls alike
C14_FailedCloseIsEmittedAgain ==
    (drv.pc = "wait" /\ drv.kbar_list /= << >>) =>
        \A k \in FailedOrders(drv.calls) :
            drv.calls[k].detail = "Close" =>
                /\ ~NextTickSame.raised
                /\ NamedLegs(drv.calls, k) \subseteq ClosedBy(NextTickSame.actions)

\* the part that holds: a failed Close of a single leg (StopLoss, TakeProfit,
\* TrailingStop) is emitted again on the next tick at the same price and
\* bars, and a failed FastStop close-all is not emitted again while the
\* latest bar is the same, because its bar time has been remembered
C14_PerLegCloseIsEmittedAgain ==
    (drv.pc = "wait" /\ drv.kbar_list /= << >>) =>
        \A k \in FailedOrders(drv.calls) :
            drv.calls[k].detail = "Close" =>
                /\ ~NextTickSame.raised
                /\ drv.calls[k].leg_id /= NoLeg =>
                     \E j \in DOMAIN NextTickSame.actions :
                        /\ NextTickSame.actions[j].leg_id = drv.calls[k].leg_id
                        /\ NextTickSame.actions[j].quantity
                             = drv.calls[k].quantity
                /\ drv.calls[k].leg_id = NoLeg =>
                     \A j \in DOMAIN NextTickSame.actions :
                        Get(NextTickSame.actions[j].metadata, "exit_reason", "")
                          /= "FS"

\* the cycle just made closed a position completely
PositionClosedInCycle ==
    /\ drv.pc \in {"step4", "raised", "wait", "stopped"}
    /\ drv.last_position /= << >>
    /\ drv.last_position[1].status = "CLOSED"

\* C15: in each driver, the cycle in which a position becomes fully closed
\* calls strategy.on_position_closed() exactly once, after the closing
\* on_fill and with no strategy.evaluate in between, and a cycle that closes
\* no position does not call it
C15_OnPositionClosedOnce ==
    (drv.pc \in {"step4", "raised", "wait", "stopped"}) =>
        IF PositionClosedInCycle
        THEN /\ Cardinality(CallsOf(drv.calls, "on_position_closed")) = 1
             /\ \A c \in CallsOf(drv.calls, "on_position_closed") :
                  /\ \A f \in CallsOf(drv.calls, "on_fill") : f < c
                  /\ \A e \in CallsOf(drv.calls, "evaluate") : e < c
        ELSE CallsOf(drv.calls, "on_position_closed") = {}

\* the part that holds: the backtest driver makes the call once in the bar
\* that closes the position, and the live driver never makes it
C15_BacktestOnly ==
    /\ (drv.pc \in {"step4", "raised"}) =>
          IF PositionClosedInCycle
          THEN /\ Cardinality(CallsOf(drv.calls, "on_position_closed")) = 1
               /\ \A c \in CallsOf(drv.calls, "on_position_closed") :
                    \A f \in CallsOf(drv.calls, "on_fill") : f < c
          ELSE CallsOf(drv.calls, "on_position_closed") = {}
    /\ (drv.pc \in {"loop", "wait", "stopped"}) =>
          CallsOf(drv.calls, "on_position_closed") = {}

AloneUnit == fn.plan[1][1]

ResultOf(outcome, unit) ==
    IF unit.name \in DOMAIN outcome.results
    THEN << outcome.results[unit.name] >> ELSE << >>

\* C17: when run is given several units with distinct strategies over the
\* same bars, the trades and the equity curve it produces for a unit are
\* those it produces when the unit is run alone, whatever the other units
\* do and in whatever order they are listed
C17_UnitResultAsWhenAlone ==
    (fn.f = "run" /\ fn.returned /\ ~fn.outcomes[1].raised)
        => /\ ~fn.outcomes[2].raised
           /\ ResultOf(fn.outcomes[2], AloneUnit)
                = ResultOf(fn.outcomes[1], AloneUnit)

\* C17 (what holds): when no unit of the list raises, the unit's trades and
\* equity curve are those of its run alone
C17_SameWhenNoUnitRaises ==
    (fn.f = "run" /\ fn.returned /\ ~fn.outcomes[1].raised
       /\ ~fn.outcomes[2].raised)
        => /\ ResultOf(fn.outcomes[1], AloneUnit) /= << >>
           /\ ResultOf(fn.outcomes[2], AloneUnit)
                = ResultOf(fn.outcomes[1], AloneUnit)

\* both calls returned, and both units of the second traded
C17_BothUnitsTraded ==
    /\ fn.f = "run" /\ fn.returned
    /\ ~fn.outcomes[1].raised /\ ~fn.outcomes[2].raised
    /\ \A k \in 1..2 :
          ResultOf(fn.outcomes[2], fn.plan[2][k]) /= << >>
          /\ ResultOf(fn.outcomes[2], fn.plan[2][k])[1].trades /= << >>
    /\ ResultOf(fn.outcomes[2], fn.plan[2][1])[1].trades
         /= ResultOf(fn.outcomes[2], fn.plan[2][2])[1].trades

\* C18: on the bars of any one date and for each direction, evaluate returns
\* at most max_entries_per_day entry signals of that direction
C18_EntriesPerDayCapped ==
    drv.pc = "orb"
        => /\ drv.entries.long <= strategy.max_entries_per_day
           /\ drv.entries.short <= strategy.max_entries_per_day

\* the long direction has used up a cap of MaxEntries on a date on which
\* the short direction entered too, and was updated once more on that date
\* without a further long entry
C18_Witness ==
    /\ drv.pc = "orb"
    /\ strategy.max_entries_per_day = MaxEntries
    /\ drv.entries.long = MaxEntries
    /\ drv.entries.short >= 1
    /\ drv.result /= << >> /\ drv.result[1].signal_type /= "ENTRY_LONG"
    /\ InSeq(drv.calls, "_update_long_state")

Waiting(state) == state \in {"WAITING_PULLBACK", "TESTING_LEVEL"}

\* an update of a waiting direction adds one to its counter, and a counter
\* past pullback_timeout_bars sends the direction to IDLE with no entry
CountedUpdate(state, counter, method, entry) ==
    (Waiting(strategy[state]) /\ InSeq(drv'.calls, method))
        => /\ strategy'[counter] = strategy[counter] + 1
           /\ strategy'[counter] > strategy.pullback_timeout_bars
                => /\ strategy'[state] = "IDLE"
                   /\ drv'.result[1].signal_type /= entry

\* C19: after a weak breakout the direction's counter grows by one on every
\* update made in WAITING_PULLBACK or TESTING_LEVEL and is not reset between
\* them; the first update at which it exceeds pullback_timeout_bars returns
\* the direction to IDLE with no signal, so the direction waits for at most
\* pullback_timeout_bars updates after the breakout bar
C19_PullbackTimesOut ==
    /\ [][drv.pc = "orb" =>
            /\ CountedUpdate("_long_state", "_long_bars_since_breakout",
                             "_update_long_state", "ENTRY_LONG")
            /\ CountedUpdate("_short_state", "_short_bars_since_breakout",
                             "_update_short_state", "ENTRY_SHORT")]_vars
    /\ [](drv.pc = "orb" =>
            /\ Waiting(strategy._long_state)
                 => /\ strategy._long_bars_since_breakout = drv.updates.long
                    /\ drv.updates.long <= strategy.pullback_timeout_bars
            /\ Waiting(strategy._short_state)
                 => /\ strategy._short_bars_since_breakout = drv.updates.short
                    /\ drv.updates.short <= strategy.pullback_timeout_bars)

\* the long direction has just timed out on its (pullback_timeout_bars + 1)-th
\* update, which returned HOLD
C19_Witness ==
    /\ drv.pc = "orb"
    /\ strategy._long_state = "IDLE"
    /\ strategy._long_bars_since_breakout = PullbackTimeout + 1
    /\ InSeq(drv.calls, "_update_long_state")
    /\ drv.result /= << >> /\ drv.result[1].signal_type = "HOLD"

\* the short direction is in TESTING_LEVEL on the last update before the
\* timeout, its counter not reset on the way
C19_WitnessTesting ==
    /\ drv.pc = "orb"
    /\ strategy._short_state = "TESTING_LEVEL"
    /\ strategy._short_bars_since_breakout = PullbackTimeout
    /\ drv.updates.short = PullbackTimeout

\* C20: evaluate returns an entry signal only on a bar of the day session
\* whose time is between or_start_time and entry_end_time, and only when the
\* opening range of the bar's date was computed by an earlier evaluate from
\* at least or_bars day-session bars of that date; otherwise it returns HOLD
C20_EntryOnlyInWindowAfterRange ==
    (drv.pc = "orb" /\ drv.result /= << >>)
        => \/ drv.result[1].signal_type = "HOLD"
           \/ /\ drv.result[1].signal_type \in {"ENTRY_LONG", "ENTRY_SHORT"}
              /\ strategy.or_start_time <= drv.result[1].time
              /\ drv.result[1].time <= strategy.entry_end_time
              /\ drv.result[1].time < strategy.session_end_time
              /\ ~InSeq(drv.calls, "_try_calculate_or")
              /\ drv.or_from /= << >>
              /\ drv.or_from[1].date = drv.result[1].date
              /\ drv.or_from[1].bars >= strategy.or_bars

\* an entry on the bar at entry_end_time, the range having been computed
\* when the date already had more than or_bars day-session bars
C20_Witness ==
    /\ drv.pc = "orb"
    /\ drv.result /= << >>
    /\ drv.result[1].signal_type = "ENTRY_SHORT"
    /\ drv.result[1].time = strategy.entry_end_time
    /\ drv.or_from /= << >>
    /\ drv.or_from[1].bars > strategy.or_bars

\* the calls of a bar that ask the manager for exit orders
ExitProbes(calls) ==
    CallsOf(calls, "check_time_exit") \cup CallsOf(calls, "on_price_update")

\* the order `action` returned by call j is executed later in the same bar
\* and applied through on_fill
ExecutedAfter(calls, j, action) ==
    \E e \in CallsOf(calls, "execute") :
        /\ e > j
        /\ calls[e].detail = "Close"
        /\ calls[e].leg_id = action.leg_id
        /\ calls[e].exit_reason = Get(action.metadata, "exit_reason", "")
        /\ \E f \in CallsOf(calls, "on_fill") : f > e

\* C22: in backtest, every exit order returned by a check_time_exit or
\* on_price_update call made during a bar, the call at the bar's close
\* included, is passed to the executor and applied through on_fill during
\* that bar; no returned exit order is dropped
C22_ReturnedExitsExecuted ==
    drv.pc = "step4" =>
        \A j \in ExitProbes(drv.calls) :
            \A k \in DOMAIN drv.calls[j].returned :
                ExecutedAfter(drv.calls, j, drv.calls[j].returned[k])

\* what does hold: the orders of every call but the one at the close are
\* executed and filled in the bar; the call at the close is the last call of
\* the bar and is made only when no earlier call returned an order
C22_ReturnedExitsExecutedBeforeClose ==
    drv.pc = "step4" =>
        \A j \in ExitProbes(drv.calls) :
            \/ \A k \in DOMAIN drv.calls[j].returned :
                  ExecutedAfter(drv.calls, j, drv.calls[j].returned[k])
            \/ /\ j = Len(drv.calls)
               /\ drv.calls[j].price = drv.kbar[1].close
               /\ \A i \in ExitProbes(drv.calls) :
                     i < j => drv.calls[i].returned = << >>

\* a bar in which an earlier call returned orders and they were filled
C22_ExitsExecuted ==
    /\ drv.pc = "step4"
    /\ \E j \in ExitProbes(drv.calls) :
          /\ drv.calls[j].returned /= << >>
          /\ ExecutedAfter(drv.calls, j, drv.calls[j].returned[1])

\* the on_price_update calls of a bar, in the order made
IsProbe(c) == c.op = "on_price_update"

ProbesOf(calls) == SelectSeq(calls, IsProbe)

\* the order the claim gives: open, then the adverse extreme, then the
\* favourable one, then the close
ProbeOrder(kbar, long) ==
    IF long THEN << kbar.open, kbar.low, kbar.high, kbar.close >>
    ELSE << kbar.open, kbar.high, kbar.low, kbar.close >>

\* the direction of the position the bar's exit checks were made on
HeldLong ==
    IF pm.position /= << >> THEN pm.position[1].direction = "Buy"
    ELSE drv.last_position[1].direction = "Buy"

\* the exit checks of the bar were made and the time exit returned nothing
ProbedBar ==
    /\ drv.pc = "step4"
    /\ \E j \in CallsOf(drv.calls, "check_time_exit") :
          drv.calls[j].returned = << >>

\* the calls follow the order, each made only after the ones before it
\* returned nothing, and the last one made is the close or returned orders
ProbedInOrder ==
    ProbedBar =>
        LET probes == ProbesOf(drv.calls)
            order == ProbeOrder(drv.kbar[1], HeldLong)
        IN  /\ Len(probes) \in 1..4
            /\ \A k \in DOMAIN probes :
                  /\ probes[k].price = order[k]
                  /\ k < Len(probes) => probes[k].returned = << >>
            /\ Len(probes) < 4 => probes[Len(probes)].returned /= << >>

\* the stop price of a leg: its stop-loss price, or the trailing-stop price
\* once trailing is active and nearer
StopPrice(leg, long) ==
    LET r == leg.exit_rule
    IN  IF r.trailing_stop_active /\ r.trailing_stop_price /= None
        THEN IF long
             THEN Maximum(r.stop_loss_price, r.trailing_stop_price)
             ELSE Minimum(r.stop_loss_price, r.trailing_stop_price)
        ELSE r.stop_loss_price

\* the bar opens strictly between the leg's stop and its take-profit and its
\* range reaches both
OpensBetweenAndReachesBoth(leg, kbar, long) ==
    LET stop == StopPrice(leg, long)
        tp == leg.exit_rule.take_profit_price
    IN  /\ leg.status = "OPEN"
        /\ tp /= None
        /\ IF long
           THEN stop < kbar.open /\ kbar.open < tp
                /\ kbar.low <= stop /\ kbar.high >= tp
           ELSE tp < kbar.open /\ kbar.open < stop
                /\ kbar.high >= stop /\ kbar.low <= tp

\* the reasons of the fills of leg_id in the calls
FillReasons(calls, leg_id) ==
    {calls[f].detail : f \in {g \in CallsOf(calls, "on_fill") :
                                 calls[g].leg_id = leg_id}}

\* a step that runs the exit checks of a bar to their end without a time
\* exit
ProbingStep ==
    /\ drv.pc = "step2" /\ has_position(pm)
    /\ ProbedBar'

\* the reasons of the fills, in the step's bar, of every leg that the bar
\* opens inside and reaches on both sides are among `reasons`
ReachedLegsClosedBy(reasons) ==
    ProbingStep =>
        \A k \in DOMAIN pm.position[1].legs :
            LET leg == pm.position[1].legs[k]
            IN  OpensBetweenAndReachesBoth(leg, drv.kbar[1],
                                           pm.position[1].direction = "Buy")
                => /\ FillReasons(drv'.calls, leg.leg_id) /= {}
                   /\ FillReasons(drv'.calls, leg.leg_id) \subseteq reasons

\* a fast-stop fill in the step's bar comes from the call at the open
FastStopAtOpenOnly ==
    ProbingStep =>
        ((\E f \in CallsOf(drv'.calls, "on_fill") : drv'.calls[f].detail = "FS")
            => Len(ProbesOf(drv'.calls)) = 1)

\* the claim as stated: the calls follow the order, and such a leg is closed
\* in the bar by StopLoss or TrailingStop
C21_ClosedByStop ==
    /\ []ProbedInOrder
    /\ [][ReachedLegsClosedBy({"SL", "TS"})]_vars

\* C21: in backtest, for a bar with a held position and no time exit, the
\* manager is probed in the order open, low, high, close for a long and open,
\* high, low, close for a short, and probing stops at the first probe that
\* returns orders; so when a bar opens between a leg's stop price and its
\* take-profit price and its range reaches both, the leg is never closed by
\* TakeProfit: it is closed by StopLoss or TrailingStop, or by the FastStop
\* close-all when the call at the open returns one
C21_StopBeforeTakeProfit ==
    /\ []ProbedInOrder
    /\ [][ReachedLegsClosedBy({"SL", "TS", "FS"})]_vars
    /\ [][FastStopAtOpenOnly]_vars

\* a bar that opened between a long leg's stop and take-profit, reached
\* both, and closed the leg by the stop-loss at the low
C21_Witness ==
    /\ ProbedBar
    /\ drv.last_position /= << >>
    /\ HeldLong
    /\ Len(ProbesOf(drv.calls)) = 2
    /\ \E k \in DOMAIN drv.last_position[1].legs :
          LET leg == drv.last_position[1].legs[k]
          IN  /\ leg.exit_rule.take_profit_price /= None
              /\ FillReasons(drv.calls, leg.leg_id) = {"SL"}
              /\ leg.exit_rule.stop_loss_price < drv.kbar[1].open
              /\ drv.kbar[1].open < leg.exit_rule.take_profit_price
              /\ drv.kbar[1].low <= leg.exit_rule.stop_loss_price
              /\ drv.kbar[1].high >= leg.exit_rule.take_profit_price

\* the same for a short: the stop-loss at the high
C21_WitnessShort ==
    /\ ProbedBar
    /\ drv.last_position /= << >>
    /\ ~HeldLong
    /\ Len(ProbesOf(drv.calls)) = 2
    /\ \E k \in DOMAIN drv.last_position[1].legs :
          LET leg == drv.last_position[1].legs[k]
          IN  /\ leg.exit_rule.take_profit_price /= None
              /\ FillReasons(drv.calls, leg.leg_id) = {"SL"}
              /\ leg.exit_rule.stop_loss_price > drv.kbar[1].open
              /\ drv.kbar[1].open > leg.exit_rule.take_profit_price
              /\ drv.kbar[1].high >= leg.exit_rule.stop_loss_price
              /\ drv.kbar[1].low <= leg.exit_rule.take_profit_price

\* a bar of that kind whose leg is closed by the fast stop
C21_ClosedByFastStop ==
    /\ ProbedBar
    /\ drv.last_position /= << >>
    /\ \E k \in DOMAIN drv.last_position[1].legs :
          LET leg == drv.last_position[1].legs[k]
          IN  /\ leg.exit_rule.take_profit_price /= None
              /\ "FS" \in FillReasons(drv.calls, leg.leg_id)
              /\ IF HeldLong
                 THEN leg.exit_rule.stop_loss_price < drv.kbar[1].open
                      /\ drv.kbar[1].open < leg.exit_rule.take_profit_price
                      /\ drv.kbar[1].low <= leg.exit_rule.stop_loss_price
                      /\ drv.kbar[1].high >= leg.exit_rule.take_profit_price
                 ELSE leg.exit_rule.stop_loss_price > drv.kbar[1].open
                      /\ drv.kbar[1].open > leg.exit_rule.take_profit_price
                      /\ drv.kbar[1].high >= leg.exit_rule.stop_loss_price
                      /\ drv.kbar[1].low <= leg.exit_rule.take_profit_price

\* ---------------------------------------------- the per-leg exit priority

\* the call returned a close-all: one order that names no leg
IsCloseAll(actions) ==
    \E k \in DOMAIN actions : actions[k].leg_id = NoLeg

\* what the priority of the claim expects of one leg at a price: << >> or
\* << [reason, trigger] >>
ExpectedExit(leg, current_price, long) ==
    LET r == leg.exit_rule
        beyond(level) == IF long THEN current_price <= level
                         ELSE current_price >= level
        reached(level) == IF long THEN current_price >= level
                          ELSE current_price <= level
    IN  IF leg.status /= "OPEN" THEN << >>
        ELSE IF r.stop_loss_price /= None /\ beyond(r.stop_loss_price)
        THEN << [reason |-> "SL", trigger |-> r.stop_loss_price] >>
        ELSE IF r.trailing_stop_active /\ r.trailing_stop_price /= None
                /\ beyond(r.trailing_stop_price)
        THEN << [reason |-> "TS", trigger |-> r.trailing_stop_price] >>
        ELSE IF r.take_profit_price /= None /\ reached(r.take_profit_price)
        THEN << [reason |-> "TP", trigger |-> r.take_profit_price] >>
        ELSE << >>

\* the orders of `actions` that name the leg, as [reason, trigger]
ExitsOf(actions, leg) ==
    LET mine == SelectSeq(actions, LAMBDA a : a.leg_id = leg.leg_id)
    IN  [k \in DOMAIN mine |->
            [reason |-> Get(mine[k].metadata, "exit_reason", ""),
             trigger |-> Get(mine[k].metadata, "trigger_price", None)]]

\* C23: in one on_price_update call that does not fire a close-all, each
\* open leg yields at most one Close order, chosen by the priority stop-loss,
\* then trailing stop (only if active), then take-profit (only if the leg has
\* a take-profit price); when the price satisfies both the stop-loss and the
\* trailing-stop condition the order has reason StopLoss and trigger_price
\* equal to stop_loss_price; a closed leg yields no order
C23_OneExitPerLegByPriority ==
    has_position(pm) =>
        \A p \in Prices, kbars \in OptionalKBarLists :
            \A r \in {on_price_update(pm, config, p, kbars)} :
                (~r.raised /\ ~IsCloseAll(r.actions)) =>
                    /\ \A k \in DOMAIN r.actions :
                          /\ r.actions[k].order_type = "Close"
                          /\ \E n \in DOMAIN pm.position[1].legs :
                                /\ pm.position[1].legs[n].leg_id
                                      = r.actions[k].leg_id
                                /\ pm.position[1].legs[n].quantity
                                      = r.actions[k].quantity
                    /\ \A n \in DOMAIN pm.position[1].legs :
                          ExitsOf(r.actions, pm.position[1].legs[n])
                            = ExpectedExit(pm.position[1].legs[n], p,
                                           pm.position[1].direction = "Buy")

\* a position with one leg closed and one open leg whose trailing stop is
\* active, at a price that is beyond both its stop-loss and its trailing stop
C23_Witness ==
    /\ has_position(pm)
    /\ \E n \in DOMAIN pm.position[1].legs :
          pm.position[1].legs[n].status /= "OPEN"
    /\ \E n \in DOMAIN pm.position[1].legs, p \in Prices :
          LET leg == pm.position[1].legs[n]
              r == on_price_update(pm, config, p, << >>)
          IN  /\ leg.status = "OPEN"
              /\ leg.exit_rule.trailing_stop_active
              /\ leg.exit_rule.trailing_stop_price /= None
              /\ IF pm.position[1].direction = "Buy"
                 THEN p <= leg.exit_rule.stop_loss_price
                      /\ p <= leg.exit_rule.trailing_stop_price
                 ELSE p >= leg.exit_rule.stop_loss_price
                      /\ p >= leg.exit_rule.trailing_stop_price
              /\ leg.exit_rule.stop_loss_price
                    /= leg.exit_rule.trailing_stop_price
              /\ ExitsOf(r.actions, leg)
                    = << [reason |-> "SL",
                          trigger |-> leg.exit_rule.stop_loss_price] >>

\* an open take-profit leg at a price that reaches its take-profit
C23_WitnessTakeProfit ==
    /\ has_position(pm)
    /\ \E n \in DOMAIN pm.position[1].legs, p \in Prices :
          LET leg == pm.position[1].legs[n]
          IN  /\ leg.status = "OPEN"
              /\ ExitsOf(on_price_update(pm, config, p, << >>).actions, leg)
                    = << [reason |-> "TP",
                          trigger |-> leg.exit_rule.take_profit_price] >>

\* ------------------------------------------------ the trailing-stop update

\* the call went on to _update_trailing_stops: it neither returned a
\* close-all nor raised
TrailingUpdateRuns(r) == ~r.raised /\ ~IsCloseAll(r.actions)

\* the unrealized points of the position at a price
UnrealizedAt(pos, current_price) ==
    IF pos.direction = "Buy" THEN current_price - pos.entry_price
    ELSE pos.entry_price - current_price

\* the min-profit gate holds the key levels back at this price
GatedByMinProfit(pos, current_price) ==
    /\ Get(pos.metadata, "key_level_min_profit", 0) > 0
    /\ UnrealizedAt(pos, current_price)
         < Get(pos.metadata, "key_level_min_profit", 0)

\* key-level mode as the specification defines it: key_levels is a
\* non-empty list and the min-profit gate is passed
KeyLevelMode(pos, current_price) ==
    /\ Get(pos.metadata, "key_levels", << >>) /= << >>
    /\ ~GatedByMinProfit(pos, current_price)

\* the branch the code takes: key_levels is present, empty or not
KeyLevelBranch(pos, current_price) ==
    /\ "key_levels" \in DOMAIN pos.metadata
    /\ ~GatedByMinProfit(pos, current_price)

\* the price has reached the level in the position's favourable direction
Reached(pos, current_price, level) ==
    IF pos.direction = "Buy" THEN current_price >= level
    ELSE current_price <= level

\* the trailing state of a leg
TrailingState(leg) ==
    << leg.exit_rule.trailing_stop_active, leg.exit_rule.trailing_stop_price,
       leg.exit_rule.is_tightened >>

\* the distance of the claim: the override of the metadata when set, else
\* the configured trailing_stop_points
ActivationDistance(pos) ==
    IF Get(pos.metadata, "override_trailing_stop_points", None) /= None
    THEN pos.metadata["override_trailing_stop_points"]
    ELSE config.trailing_stop_points

\* what the claim says of one call for the open legs with trailing inactive
ActivatesAtStart(pos, current_price, r) ==
    \A n \in DOMAIN pos.legs :
        LET leg == pos.legs[n]
            after == r.pm.position[1].legs[n]
        IN  (leg.status = "OPEN" /\ ~leg.exit_rule.trailing_stop_active
             /\ leg.exit_rule.start_trailing_stop_price /= None) =>
                IF Reached(pos, current_price,
                           leg.exit_rule.start_trailing_stop_price)
                THEN /\ after.exit_rule.trailing_stop_active
                     /\ after.exit_rule.trailing_stop_price =
                          IF pos.direction = "Buy"
                          THEN current_price - ActivationDistance(pos)
                          ELSE current_price + ActivationDistance(pos)
                     /\ \A k \in DOMAIN ExitsOf(r.actions, leg) :
                           ExitsOf(r.actions, leg)[k].reason /= "TS"
                ELSE TrailingState(after) = TrailingState(leg)

\* C24: outside key-level mode, for an open leg whose trailing stop is
\* inactive, a price update with price >= start_trailing_stop_price (long;
\* <= for short) sets trailing_stop_active and trailing_stop_price = price - d
\* (long; price + d for short), d being override_trailing_stop_points of the
\* position metadata when set and else the configured trailing_stop_points;
\* an update that has not reached start_trailing_stop_price leaves the leg's
\* trailing state unchanged; activation never closes the leg in the same call
C24_ActivationAtStart ==
    has_position(pm) =>
        \A p \in Prices, kbars \in OptionalKBarLists :
            \A r \in {on_price_update(pm, config, p, kbars)} :
                (TrailingUpdateRuns(r) /\ ~KeyLevelMode(pm.position[1], p))
                    => ActivatesAtStart(pm.position[1], p, r)

\* what does hold: the same whenever the position carries no key_levels at
\* all (or the gate holds them back)
C24_ActivationWithoutKeyLevels ==
    has_position(pm) =>
        \A p \in Prices, kbars \in OptionalKBarLists :
            \A r \in {on_price_update(pm, config, p, kbars)} :
                (TrailingUpdateRuns(r) /\ ~KeyLevelBranch(pm.position[1], p))
                    => ActivatesAtStart(pm.position[1], p, r)

\* a position without key levels whose trailing stop a price activates, with
\* the override distance
C24_Activated ==
    /\ has_position(pm)
    /\ "key_levels" \notin DOMAIN pm.position[1].metadata
    /\ ActivationDistance(pm.position[1]) /= config.trailing_stop_points
    /\ \E p \in Prices, n \in DOMAIN pm.position[1].legs :
          LET leg == pm.position[1].legs[n]
              r == on_price_update(pm, config, p, << >>)
          IN  /\ leg.status = "OPEN" /\ ~leg.exit_rule.trailing_stop_active
              /\ r.pm.position[1].legs[n].exit_rule.trailing_stop_active

\* C27: the key-level override is engaged only when the metadata's
\* key_levels is a non-empty list: for a position opened from a signal
\* without key_levels or with an empty key_levels list the standard rules
\* apply, so trailing activates when the price reaches
\* start_trailing_stop_price
C27_StandardRulesWithoutLevels ==
    (has_position(pm)
     /\ Get(pm.position[1].metadata, "key_levels", << >>) = << >>) =>
        \A p \in Prices, kbars \in OptionalKBarLists :
            \A r \in {on_price_update(pm, config, p, kbars)} :
                TrailingUpdateRuns(r) =>
                    /\ r.pm.position[1].legs =
                          [n \in DOMAIN pm.position[1].legs |->
                              IF pm.position[1].legs[n].status = "OPEN"
                              THEN [pm.position[1].legs[n] EXCEPT !.exit_rule =
                                      StandardTrailingUpdate(pm, config, @, p,
                                          pm.position[1].direction = "Buy")]
                              ELSE pm.position[1].legs[n]]
                    /\ \A n \in DOMAIN pm.position[1].legs :
                          LET leg == pm.position[1].legs[n]
                          IN  (leg.status = "OPEN"
                               /\ Reached(pm.position[1], p,
                                     leg.exit_rule.start_trailing_stop_price))
                              => r.pm.position[1].legs[n]
                                    .exit_rule.trailing_stop_active

\* what does hold: the standard rules apply when the signal carried no
\* key_levels entry at all
C27_StandardRulesWithoutKeyLevelsEntry ==
    (has_position(pm) /\ "key_levels" \notin DOMAIN pm.position[1].metadata) =>
        \A p \in Prices, kbars \in OptionalKBarLists :
            \A r \in {on_price_update(pm, config, p, kbars)} :
                TrailingUpdateRuns(r) =>
                    \A n \in DOMAIN pm.position[1].legs :
                        LET leg == pm.position[1].legs[n]
                        IN  (leg.status = "OPEN"
                             /\ Reached(pm.position[1], p,
                                   leg.exit_rule.start_trailing_stop_price))
                            => r.pm.position[1].legs[n]
                                  .exit_rule.trailing_stop_active

\* a position opened with an empty key_levels list, at a price that has
\* reached start_trailing_stop_price, whose trailing stop stays inactive
C27_EmptyListNeverActivates ==
    /\ has_position(pm)
    /\ "key_levels" \in DOMAIN pm.position[1].metadata
    /\ pm.position[1].metadata["key_levels"] = << >>
    /\ \E p \in Prices, n \in DOMAIN pm.position[1].legs :
          LET leg == pm.position[1].legs[n]
              r == on_price_update(pm, config, p, << >>)
          IN  /\ leg.status = "OPEN"
              /\ Reached(pm.position[1], p,
                         leg.exit_rule.start_trailing_stop_price)
              /\ ~r.pm.position[1].legs[n].exit_rule.trailing_stop_active

\* ------------------------------------------------------ staged tightening

\* the stop nearer the market of the one held and price -/+ distance
TightenedStop(pos, exit_rule, current_price) ==
    LET tight == IF pos.direction = "Buy"
                 THEN current_price - exit_rule.tightened_trailing_stop_points
                 ELSE current_price + exit_rule.tightened_trailing_stop_points
        held == exit_rule.trailing_stop_price
    IN  IF held = None THEN tight
        ELSE IF pos.direction = "Buy" THEN Maximum(held, tight)
        ELSE Minimum(held, tight)

\* what the claim says of one call for the open legs with trailing active:
\* a leg that is tightened, or that the price takes to tighten_after_price,
\* is tightened after the call and its stop has moved by the tightened
\* distance unless that loosens it; any other leg stays untightened
TightensAtPrice(pos, current_price, r) ==
    \A n \in DOMAIN pos.legs :
        LET rule == pos.legs[n].exit_rule
            after == r.pm.position[1].legs[n].exit_rule
        IN  (pos.legs[n].status = "OPEN" /\ rule.trailing_stop_active
             /\ rule.tighten_after_price /= None
             /\ rule.tightened_trailing_stop_points /= None) =>
                IF rule.is_tightened
                   \/ Reached(pos, current_price, rule.tighten_after_price)
                THEN /\ after.is_tightened
                     /\ after.trailing_stop_price
                          = TightenedStop(pos, rule, current_price)
                ELSE ~after.is_tightened

\* is_tightened never returns to false while the position is held
StaysTightened ==
    SamePosition =>
        \A n \in DOMAIN pm.position[1].legs :
            pm.position[1].legs[n].exit_rule.is_tightened
                => pm'.position[1].legs[n].exit_rule.is_tightened

C25_NotTightenedInKeyLevelMode ==
    /\ has_position(pm)
    /\ \E p \in Prices, n \in DOMAIN pm.position[1].legs :
          LET rule == pm.position[1].legs[n].exit_rule
              r == on_price_update(pm, config, p, << >>)
          IN  /\ KeyLevelMode(pm.position[1], p)
              /\ pm.position[1].legs[n].status = "OPEN"
              /\ rule.trailing_stop_active /\ ~rule.is_tightened
              /\ rule.tighten_after_price /= None
              /\ Reached(pm.position[1], p, rule.tighten_after_price)
              /\ TrailingUpdateRuns(r)
              /\ ~r.pm.position[1].legs[n].exit_rule.is_tightened

\* ------------------------------------------------------ key-level trailing

\* the price has strictly crossed the level
Crossed(pos, current_price, level) ==
    IF pos.direction = "Buy" THEN current_price > level
    ELSE current_price < level

\* the cursor of the position
Cursor(pos) == Get(pos.metadata, "next_key_level_idx", 0)

\* the cursor past every consecutive level, from idx on, that the price has
\* strictly crossed
AdvancedCursor(pos, current_price) ==
    LET levels == pos.metadata["key_levels"]
        stops == {j \in Cursor(pos)..Len(levels) :
                    j = Len(levels) \/ ~Crossed(pos, current_price, levels[j + 1])}
    IN  CHOOSE j \in stops : \A i \in stops : j <= i

\* stop a is at least as favourable to the position as stop b
AtLeastAsFavourable(pos, a, b) ==
    IF pos.direction = "Buy" THEN a >= b ELSE a <= b

\* what the claim says of one call made in key-level mode
KeyLevelUpdate(pos, current_price, r) ==
    LET levels == pos.metadata["key_levels"]
        buffer == Get(pos.metadata, "key_level_buffer", 10)
        after == r.pm.position[1]
        idx == AdvancedCursor(pos, current_price)
    IN  /\ Cursor(after) = idx
        /\ idx < Len(levels) =>
              \A n \in DOMAIN pos.legs :
                  IF idx > Cursor(pos) /\ pos.legs[n].status = "OPEN"
                  THEN /\ after.legs[n].exit_rule.trailing_stop_active
                       /\ \A j \in (Cursor(pos) + 1)..idx :
                             AtLeastAsFavourable(pos,
                                 after.legs[n].exit_rule.trailing_stop_price,
                                 IF pos.direction = "Buy"
                                 THEN levels[j] - buffer
                                 ELSE levels[j] + buffer)
                       /\ after.legs[n].exit_rule.is_tightened
                             = pos.legs[n].exit_rule.is_tightened
                  ELSE TrailingState(after.legs[n]) = TrailingState(pos.legs[n])

\* the cursor never decreases and never exceeds the number of levels
CursorAdvances ==
    (SamePosition /\ "key_levels" \in DOMAIN pm.position[1].metadata) =>
        /\ Cursor(pm'.position[1]) >= Cursor(pm.position[1])
        /\ Cursor(pm'.position[1]) <= Len(pm'.position[1].metadata["key_levels"])
        /\ pm'.position[1].metadata["key_levels"]
              = pm.position[1].metadata["key_levels"]

\* C26: in key-level mode the cursor next_key_level_idx never decreases and
\* never exceeds len(key_levels); one price update advances it past every
\* consecutive level the price has strictly crossed; while an unbroken level
\* remains, a leg's trailing state changes only when a level L is crossed
\* (all open legs become trailing-active with trailing_stop_price at least as
\* favourable as L - buffer for long, L + buffer for short) and is otherwise
\* untouched, even if the price has reached start_trailing_stop_price
C26_KeyLevelCursor ==
    /\ [](has_position(pm) =>
            \A p \in Prices, kbars \in OptionalKBarLists :
                \A r \in {on_price_update(pm, config, p, kbars)} :
                    (TrailingUpdateRuns(r) /\ KeyLevelMode(pm.position[1], p))
                        => KeyLevelUpdate(pm.position[1], p, r))
    /\ [][CursorAdvances]_vars

\* a position in key-level mode that has crossed its first level only: the
\* cursor is 1, an unbroken level remains, every open leg trails at the
\* level less the buffer, and the price that reached
\* start_trailing_stop_price without crossing left the legs untouched
C26_Witness ==
    /\ has_position(pm)
    /\ "key_levels" \in DOMAIN pm.position[1].metadata
    /\ Len(pm.position[1].metadata["key_levels"]) = 2
    /\ Cursor(pm.position[1]) = 1
    /\ "key_level_min_profit" \notin DOMAIN pm.position[1].metadata
    /\ \A n \in DOMAIN pm.position[1].legs :
          /\ pm.position[1].legs[n].status = "OPEN"
          /\ pm.position[1].legs[n].exit_rule.trailing_stop_active
          /\ pm.position[1].legs[n].exit_rule.trailing_stop_price
                = IF pm.position[1].direction = "Buy"
                  THEN pm.position[1].metadata["key_levels"][1]
                       - pm.position[1].metadata["key_level_buffer"]
                  ELSE pm.position[1].metadata["key_levels"][1]
                       + pm.position[1].metadata["key_level_buffer"]

\* a position in key-level mode, no level crossed yet, at a price that has
\* reached start_trailing_stop_price: the update leaves trailing inactive
C26_WitnessUntouchedAtStart ==
    /\ has_position(pm)
    /\ \E p \in Prices, n \in DOMAIN pm.position[1].legs :
          LET leg == pm.position[1].legs[n]
              r == on_price_update(pm, config, p, << >>)
          IN  /\ KeyLevelMode(pm.position[1], p)
              /\ Cursor(pm.position[1]) = 0
              /\ leg.status = "OPEN" /\ ~leg.exit_rule.trailing_stop_active
              /\ Reached(pm.position[1], p,
                         leg.exit_rule.start_trailing_stop_price)
              /\ TrailingUpdateRuns(r)
              /\ ~r.pm.position[1].legs[n].exit_rule.trailing_stop_active

\* a price update that takes the cursor past two levels at once
C26_WitnessTwoLevels ==
    /\ has_position(pm)
    /\ \E p \in Prices :
          /\ KeyLevelMode(pm.position[1], p)
          /\ Cursor(pm.position[1]) = 0
          /\ Cursor(on_price_update(pm, config, p, << >>).pm.position[1]) = 2

\* ------------------------- price updates that share one latest bar

\* the bar list of a caller while the bar of timestamp `time` is the latest:
\* kbars[: i + 1] in the backtest, the fetched bars in live trading; the MACD
\* of the list follows the price of its latest bar, so two lists of one
\* timestamp may show different crosses
TickKBars(time, cross) == KBarList(34 + time, time, cross, 0)

\* the callers of the manager, bar after bar; drv remembers whether an
\* on_price_update with bars was made on the held position since the latest
\* bar began, and what the latest on_price_update call did
InitTicks ==
    /\ config = TwoLegConfig
    /\ pm = NewPositionManager(TRUE)
    /\ next_uuid = 1
    /\ drv = [pc |-> "ticks", time |-> 1, seen |-> FALSE, last |-> << >>]
    /\ executor = NoExecutor
    /\ fn = NoFn
    /\ strategy = NoStrategy

\* an entry signal answered by on_signal while flat
TickSignal ==
    \E t \in {"ENTRY_LONG", "ENTRY_SHORT"} :
        \E r \in {on_signal(pm, config, StrategySignal(t, EntryPrice, EmptyDict),
                            TickKBars(drv.time, "none"), next_uuid)} :
            /\ next_uuid <= MaxPositions
            /\ r.actions /= << >>
            /\ pm' = r.pm
            /\ next_uuid' = next_uuid + 1
            /\ drv' = [drv EXCEPT !.seen = FALSE, !.last = << >>]
            /\ UNCHANGED <<strategy, config, executor, fn>>

\* one on_price_update call with the bars of the latest timestamp
TickPrice ==
    \E p \in Prices, cross \in {"none", "death", "golden"} :
        \E r \in {on_price_update(pm, config, p,
                                  << TickKBars(drv.time, cross) >>)} :
            /\ has_position(pm)
            /\ pm' = r.pm
            /\ drv' = [drv EXCEPT
                  !.seen = TRUE,
                  !.last = << [first |-> ~drv.seen,
                               price |-> p,
                               cross |-> cross,
                               flag_before |->
                                   pm.position[1].is_in_macd_adverse_cross,
                               flag_after |->
                                   r.pm.position[1].is_in_macd_adverse_cross,
                               fast_stop |->
                                   \E k \in DOMAIN r.actions :
                                       r.actions[k].metadata.exit_reason
                                           = ExitReason.FAST_STOP] >>]
            /\ UNCHANGED <<strategy, config, next_uuid, executor, fn>>

\* the fill of one leg's close reported to the manager
TickFill ==
    \E id \in LegIds :
        /\ has_position(pm)
        /\ pm' = on_fill(pm, id, PriceBase, 1, ExitReason.STOP_LOSS)
        /\ drv' = [drv EXCEPT !.last = << >>]
        /\ UNCHANGED <<strategy, config, next_uuid, executor, fn>>

\* the next bar becomes the latest
TickNewBar ==
    /\ drv.time < MaxKBarTime
    /\ drv' = [drv EXCEPT !.time = @ + 1, !.seen = FALSE, !.last = << >>]
    /\ UNCHANGED <<strategy, config, pm, next_uuid, executor, fn>>

NextTicks == TickSignal \/ TickPrice \/ TickFill \/ TickNewBar

SpecTicks == InitTicks /\ [][NextTicks]_vars

\* the latest on_price_update call came after another call of the same
\* timestamp on the same position
LaterCallOfBar == drv.pc = "ticks" /\ drv.last /= << >> /\ ~drv.last[1].first

\* C28: of the on_price_update calls on one position whose bar lists share
\* their latest timestamp, only the first can run the MACD fast stop: every
\* later one leaves is_in_macd_adverse_cross as it was and returns no
\* FastStop, whatever its price and whatever cross its bars show
C28_OncePerBar ==
    LaterCallOfBar =>
        /\ drv.last[1].flag_after = drv.last[1].flag_before
        /\ ~drv.last[1].fast_stop

\* a later call of the bar on a long position whose flag is unset, with a
\* death cross in its bars and a price beyond the stop-loss threshold: the
\* flag stays unset and nothing is returned as FastStop
C28_Witness ==
    /\ LaterCallOfBar
    /\ has_position(pm)
    /\ pm.position[1].direction = "Buy"
    /\ drv.last[1].cross = "death"
    /\ ~drv.last[1].flag_before
    /\ ~drv.last[1].flag_after
    /\ pm.position[1].entry_price - drv.last[1].price
         > calculate_points(config.stop_loss_points,
                            config.stop_loss_points_rate,
                            pm.position[1].entry_price)
    /\ \A k \in open_legs(pm.position[1]) :
          ~pm.position[1].legs[k].exit_rule.trailing_stop_active

\* the first call of a bar runs it: it sets the flag and returns FastStop
C28_FirstCallFires ==
    /\ drv.pc = "ticks" /\ drv.last /= << >> /\ drv.last[1].first
    /\ ~drv.last[1].flag_before
    /\ drv.last[1].flag_after
    /\ drv.last[1].fast_stop

\* --------------------------------------------- when the fast stop is emitted

\* the orders of a call hold a FastStop
HasFastStop(actions) ==
    \E k \in DOMAIN actions :
        actions[k].metadata.exit_reason = ExitReason.FAST_STOP

\* the configuration of the manager with the fast stop on, and with it off:
\* enable_macd_fast_stop is read by on_price_update only
FastStopConfigs ==
    {[config EXCEPT !.enable_macd_fast_stop = b] : b \in BOOLEAN}

\* the stop-loss threshold of the fast stop, in points
StopLossThreshold(cfg, pos) ==
    calculate_points(cfg.stop_loss_points, cfg.stop_loss_points_rate,
                     pos.entry_price)

AnyTrailingActive(pos) ==
    \E k \in open_legs(pos) : pos.legs[k].exit_rule.trailing_stop_active

\* C29: an on_price_update call returns a FastStop only with
\* enable_macd_fast_stop on, bars supplied, no open leg trailing, the
\* adverse-cross flag set when it fires and a loss in points strictly beyond
\* the stop-loss threshold; the FastStop is then the only order returned, it
\* is a close-all, and the call leaves every leg (its trailing stop included)
\* as it was
C29_FastStopOnlyWhenDue ==
    has_position(pm) =>
        \A cfg \in FastStopConfigs, p \in Prices, kbars \in OptionalKBarLists :
            \A r \in {on_price_update(pm, cfg, p, kbars)} :
                HasFastStop(r.actions) =>
                    /\ cfg.enable_macd_fast_stop
                    /\ kbars /= << >>
                    /\ ~AnyTrailingActive(pm.position[1])
                    /\ r.pm.position[1].is_in_macd_adverse_cross
                    /\ -UnrealizedAt(pm.position[1], p)
                         > StopLossThreshold(cfg, pm.position[1])
                    /\ Len(r.actions) = 1
                    /\ r.actions[1].leg_id = NoLeg
                    /\ r.pm.position[1].legs = pm.position[1].legs

\* a position with two open legs, the flag set by an earlier bar, and a call
\* on a later bar at a price beyond the stop-loss price of both legs: the
\* call returns the FastStop alone
C29_Witness ==
    /\ has_position(pm)
    /\ Cardinality(open_legs(pm.position[1])) = 2
    /\ pm.position[1].is_in_macd_adverse_cross
    /\ \E p \in Prices, kbars \in OptionalKBarLists :
          LET r == on_price_update(pm, config, p, kbars)
          IN  /\ HasFastStop(r.actions)
              /\ \A k \in open_legs(pm.position[1]) :
                    ExpectedExit(pm.position[1].legs[k], p,
                                 pm.position[1].direction = "Buy") /= << >>

\* a call whose bars show the adverse cross for the first time fires at once
C29_WitnessFiresOnCross ==
    /\ has_position(pm)
    /\ ~pm.position[1].is_in_macd_adverse_cross
    /\ \E p \in Prices, kbars \in OptionalKBarLists :
          HasFastStop(on_price_update(pm, config, p, kbars).actions)

\* ------------------------------------------ the adverse-cross flag

\* an on_price_update call of the held position makes a fast-stop check that
\* the bar guards let through: bars supplied, at least 35 of them, and a
\* latest timestamp other than the one last evaluated
FastStopCheckMade(kbars) ==
    /\ kbars /= << >>
    /\ config.enable_macd_fast_stop
    /\ pm.indicator_service
    /\ kbars[1].len >= 35
    /\ kbars[1].time /= pm.last_fast_stop_check_kbar_time

AdverseCross(pos, kbar_list) ==
    IF pos.direction = "Buy" THEN kbar_list.death_cross
    ELSE kbar_list.golden_cross

FavorableCross(pos, kbar_list) ==
    IF pos.direction = "Buy" THEN kbar_list.golden_cross
    ELSE kbar_list.death_cross

\* C30: a fast-stop check made while is_in_macd_adverse_cross is false and
\* the unrealized loss is below the stop-loss threshold is skipped: the flag
\* stays false and no FastStop is returned
C30_SkippedBelowThreshold ==
    has_position(pm) =>
        \A p \in Prices, kbars \in OptionalKBarLists :
            ( /\ FastStopCheckMade(kbars)
              /\ ~pm.position[1].is_in_macd_adverse_cross
              /\ -UnrealizedAt(pm.position[1], p)
                   < StopLossThreshold(config, pm.position[1]) )
            => \A r \in {on_price_update(pm, config, p, kbars)} :
                  /\ ~r.pm.position[1].is_in_macd_adverse_cross
                  /\ ~HasFastStop(r.actions)

\* the rest of C30: whatever the loss, a call sets the flag only on bars that
\* show an adverse cross and clears it only on bars that show a favorable
\* cross; below the threshold with the flag unset it returns no FastStop
C30_FlagFollowsCrosses ==
    has_position(pm) =>
        \A p \in Prices, kbars \in OptionalKBarLists :
            \A r \in {on_price_update(pm, config, p, kbars)} :
                LET before == pm.position[1].is_in_macd_adverse_cross
                    after == r.pm.position[1].is_in_macd_adverse_cross
                IN  /\ (~before /\ after) =>
                          /\ FastStopCheckMade(kbars)
                          /\ AdverseCross(pm.position[1], kbars[1])
                    /\ (before /\ ~after) =>
                          /\ FastStopCheckMade(kbars)
                          /\ FavorableCross(pm.position[1], kbars[1])
                    /\ ( /\ ~before
                         /\ -UnrealizedAt(pm.position[1], p)
                              < StopLossThreshold(config, pm.position[1]) )
                       => ~HasFastStop(r.actions)

\* a check made with the flag unset and the position in profit, on bars that
\* show an adverse cross: the call sets the flag
C30_FlagSetBelowThreshold ==
    /\ has_position(pm)
    /\ ~pm.position[1].is_in_macd_adverse_cross
    /\ \E p \in Prices, kbars \in OptionalKBarLists :
          /\ FastStopCheckMade(kbars)
          /\ UnrealizedAt(pm.position[1], p) > 0
          /\ AdverseCross(pm.position[1], kbars[1])
          /\ on_price_update(pm, config, p, kbars)
                 .pm.position[1].is_in_macd_adverse_cross

\* a flag set by an adverse cross and cleared by a later favorable cross
C30_FlagCleared ==
    /\ has_position(pm)
    /\ pm.position[1].is_in_macd_adverse_cross
    /\ \E p \in Prices, kbars \in OptionalKBarLists :
          /\ FastStopCheckMade(kbars)
          /\ FavorableCross(pm.position[1], kbars[1])
          /\ ~on_price_update(pm, config, p, kbars)
                  .pm.position[1].is_in_macd_adverse_cross

\* ------------------------------------------------- the momentum exit

\* the gates of _check_momentum_exhaustion on a position and a call
MomentumDue(pos, current_price, kbar_list) ==
    LET lookback == Get(pos.metadata, "momentum_lookback", 5)
    IN  /\ Get(pos.metadata, "use_momentum_exit", FALSE)
        /\ UnrealizedAt(pos, current_price)
             >= Get(pos.metadata, "momentum_min_profit", 0)
        /\ \/ kbar_list.consecutive_weak
                >= Get(pos.metadata, "momentum_min_weak_bars", 3)
           \/ /\ kbar_list.shrinking >= lookback - 2
              /\ kbar_list.consecutive_weak >= 2

\* the orders of a call hold a close-all that is no FastStop
HasMomentumExit(actions) ==
    \E k \in DOMAIN actions :
        /\ actions[k].leg_id = NoLeg
        /\ actions[k].metadata.exit_reason /= ExitReason.FAST_STOP

\* C31: a MomentumExit close-all is emitted only when use_momentum_exit is
\* set, the unrealized points are at least momentum_min_profit and condition
\* A or B holds on the latest bars; and the call that finds them so on bars
\* not evaluated before emits it
C31_MomentumExitWhenDue ==
    has_position(pm) =>
        \A p \in Prices, kbars \in OptionalKBarLists :
            \A r \in {on_price_update(pm, config, p, kbars)} :
                /\ (~r.raised /\ HasMomentumExit(r.actions)) =>
                      /\ kbars /= << >>
                      /\ MomentumDue(pm.position[1], p, kbars[1])
                /\ ( /\ kbars /= << >>
                     /\ MomentumDue(pm.position[1], p, kbars[1])
                     /\ kbars[1].len
                          >= Get(pm.position[1].metadata,
                                 "momentum_lookback", 5) + 2
                     /\ Get(pm.position[1].metadata,
                            "_last_momentum_check_time", None) /= kbars[1].time
                     /\ ~HasFastStop(r.actions) )
                   => (~r.raised /\ HasMomentumExit(r.actions))

\* what the code does keep of C31: on_price_update raises in place of the
\* close-all, and only under the conditions of the claim; a call on bars
\* whose timestamp was evaluated before neither raises nor touches the
\* memory, and no call returns a MomentumExit
C31_RaisedOnlyWhenDue ==
    has_position(pm) =>
        \A p \in Prices, kbars \in OptionalKBarLists :
            \A r \in {on_price_update(pm, config, p, kbars)} :
                /\ ~HasMomentumExit(r.actions)
                /\ r.raised =>
                      /\ kbars /= << >>
                      /\ MomentumDue(pm.position[1], p, kbars[1])
                      /\ Get(pm.position[1].metadata,
                             "_last_momentum_check_time", None) /= kbars[1].time
                      /\ Get(r.pm.position[1].metadata,
                             "_last_momentum_check_time", None) = kbars[1].time
                /\ ( /\ kbars /= << >>
                     /\ Get(pm.position[1].metadata,
                            "_last_momentum_check_time", None) = kbars[1].time )
                   => /\ ~r.raised
                      /\ r.pm.position[1].metadata = pm.position[1].metadata

\* a position with use_momentum_exit whose bars were evaluated and found
\* exhausted: the memory holds their timestamp and a call on the same bars,
\* still exhausted and in profit, is not evaluated again
C31_EvaluatedOnce ==
    /\ has_position(pm)
    /\ \E p \in Prices, kbars \in OptionalKBarLists :
          /\ kbars /= << >>
          /\ MomentumDue(pm.position[1], p, kbars[1])
          /\ Get(pm.position[1].metadata, "_last_momentum_check_time", None)
               = kbars[1].time
          /\ ~on_price_update(pm, config, p, kbars).raised

\* ----------------------------------------------------- the equity curve

RECURSIVE SumPnlTwd(_)
SumPnlTwd(trades) ==
    IF trades = << >> THEN 0
    ELSE trades[1].pnl_twd + SumPnlTwd(Tail(trades))

\* the unrealized profit in TWD of the quantity still open at the bar close
UnrealizedOpenTwd(close) ==
    IF ~has_position(pm) THEN 0
    ELSE IF drv.pending_direction = "Buy"
    THEN (close - drv.pending_entry_price)
         * open_quantity(pm.position[1]) * point_value
    ELSE (drv.pending_entry_price - close)
         * open_quantity(pm.position[1]) * point_value

\* the step that appends the equity point of a bar
EquityStep == drv.pc = "step4" /\ drv'.pc \in {"step1", "done"}

\* C32: the equity point appended after a bar is the initial capital plus
\* the realized profit of the legs closed so far plus the unrealized profit
\* of the quantity still open, (close - entry fill) x open quantity x point
\* value for a long and the reverse for a short; with no position it is the
\* initial capital plus the pnl_twd of the recorded trades
C32_EquityPoint ==
    [][EquityStep =>
          drv'.equity_point
            = initial_capital + SumPnlTwd(drv.trades)
              + UnrealizedOpenTwd(drv.kbar[1].close)]_vars

\* the part of C32 the loop keeps: cash is the initial capital plus the
\* recorded trades, and the equity point is as claimed while no leg of the
\* held position is closed or no position is held
C32_EquityPointOfWholePosition ==
    [][EquityStep =>
          /\ drv.current_equity = initial_capital + SumPnlTwd(drv.trades)
          /\ ( \/ ~has_position(pm)
               \/ open_quantity(pm.position[1]) = config.total_quantity )
             => drv'.equity_point
                  = initial_capital + SumPnlTwd(drv.trades)
                    + UnrealizedOpenTwd(drv.kbar[1].close)]_vars

\* a bar ends with one leg closed, one open and the close away from the
\* entry fill
C32_PartlyClosedAtBarEnd ==
    /\ drv.pc = "step4"
    /\ has_position(pm)
    /\ open_quantity(pm.position[1]) < config.total_quantity
    /\ drv.trades /= << >>
    /\ drv.kbar[1].close /= drv.pending_entry_price

\* a bar ends flat after a trade
C32_FlatAfterTrade ==
    /\ drv.pc = "step4"
    /\ ~has_position(pm)
    /\ drv.trades /= << >>

\* ------------------------------------- the ORB long-side state machine

\* closes one point apart over the range of the bars, each as the close of
\* a flat bar, of a bar closing on its high, in its upper third and on its
\* low
ORBCloses == ORBPriceBase..(ORBPriceBase + ORBPriceStep * ORBPriceLevels)

ORBCloseBars ==
    UNION { { [high |-> c, low |-> c, close |-> c],
              [high |-> c, low |-> c - 3, close |-> c],
              [high |-> c + 1, low |-> c - 2, close |-> c],
              [high |-> c + 3, low |-> c, close |-> c] } : c \in ORBCloses }

\* the lists evaluate can pass to the state machines with such a latest bar
ORBUpdateLists ==
    { ORBKBarList(drv.kbar_list, kbar, rvol, None, "none", reject) :
        kbar \in ORBCloseBars, rvol \in {None, 20}, reject \in BOOLEAN }

\* the state machines run on the strategy: the opening range is computed
\* and is not under the minimum
ORBUpdatable ==
    /\ drv.pc = "orb"
    /\ strategy._or_calculated
    /\ strategy._or_range >= MinORRange

\* the transition table of the long side: from strategy s on a close, the
\* state, the counters and the signal of the result r
LongTable(s, kbar_list, r) ==
    LET close == kbar_list.latest.close
        high == s._or_high
        mid == s._or_mid
        tol == (s.retest_tolerance_pct * s._or_range) \div 100
        t == r.strategy
        entry == r.signal = << "ENTRY_LONG" >>
        silent == r.signal = << >>
        strong == _classify_breakout(s, kbar_list, TRUE)
        passes == ~kbar_list.filters_reject
        timeout == s._long_bars_since_breakout + 1 > s.pullback_timeout_bars
        bounce == /\ close > high
                  /\ candle_strength(kbar_list.latest) >= s.min_bounce_strength
        goes(state) == /\ silent
                       /\ t = [s EXCEPT !._long_state = state,
                                        !._long_bars_since_breakout = @ + 1]
        enters == /\ entry
                  /\ t._long_state = "IDLE"
                  /\ t._long_trades_today = s._long_trades_today + 1
    IN  IF s._long_trades_today >= s.max_entries_per_day
        THEN silent /\ t = s
        ELSE IF s._long_state = "IDLE"
        THEN IF close > high /\ strong /\ passes
             THEN enters /\ t = [s EXCEPT !._long_trades_today = @ + 1]
             ELSE IF close > high /\ strong THEN silent /\ t = s
             ELSE IF close > high
             THEN /\ silent
                  /\ t = [s EXCEPT !._long_state = "WAITING_PULLBACK",
                                   !._long_bars_since_breakout = 0]
             ELSE silent /\ t = s
        ELSE IF s._long_state = "WAITING_PULLBACK"
        THEN IF timeout \/ close < mid THEN goes("IDLE")
             ELSE IF high - tol <= close /\ close <= high + tol
             THEN goes("TESTING_LEVEL")
             ELSE goes("WAITING_PULLBACK")
        ELSE IF timeout \/ close < mid THEN goes("IDLE")
             ELSE IF bounce /\ passes
             THEN /\ enters
                  /\ t = [s EXCEPT !._long_state = "IDLE",
                                   !._long_bars_since_breakout = @ + 1,
                                   !._long_trades_today = @ + 1]
             ELSE IF bounce THEN goes("TESTING_LEVEL")
             ELSE IF close < high - tol THEN goes("WAITING_PULLBACK")
             ELSE goes("TESTING_LEVEL")

\* a step of the caller moves the long state only through the machine, or
\* to IDLE at the reset of a new date
LongStateMovedByMachine ==
    strategy'._long_state /= strategy._long_state =>
        \/ InSeq(drv'.calls, "_update_long_state")
        \/ /\ InSeq(drv'.calls, "_reset_daily_state")
           /\ strategy'._long_state = "IDLE"

\* C33: the long side takes only the transitions of the table: from IDLE on
\* a close above OR_High an entry (strong, filters pass; still IDLE, count
\* + 1), nothing (strong, rejected) or WAITING_PULLBACK with counter 0
\* (weak); from WAITING_PULLBACK to IDLE on timeout or a close under OR_Mid,
\* to TESTING_LEVEL on a close within tol of OR_High, else it stays; from
\* TESTING_LEVEL to IDLE on timeout, a close under OR_Mid or a retest entry,
\* to WAITING_PULLBACK on a close under OR_High - tol, else it stays; a long
\* entry comes from the IDLE strong breakout and the retest only
C33_LongStateMachine ==
    /\ [](ORBUpdatable =>
            \A kbar_list \in ORBUpdateLists :
                LongTable(strategy, kbar_list,
                          _update_long_state(strategy, kbar_list,
                                             kbar_list.latest.close)))
    /\ [][LongStateMovedByMachine]_vars

\* the machine is in TESTING_LEVEL and a close between OR_Mid and
\* OR_High - tol, off the levels of the range, takes it back to
\* WAITING_PULLBACK
C33_Witness ==
    /\ ORBUpdatable
    /\ strategy._long_state = "TESTING_LEVEL"
    /\ \E kbar_list \in ORBUpdateLists :
          LET close == kbar_list.latest.close
              r == _update_long_state(strategy, kbar_list, close)
          IN  /\ close > strategy._or_mid
              /\ close < strategy._or_high - tolerance_of(strategy)
              /\ close > strategy._or_high - ORBPriceStep
              /\ r.strategy._long_state = "WAITING_PULLBACK"
              /\ r.signal = << >>

\* WAITING_PULLBACK and a close inside the retest zone but off OR_High
C33_WitnessRetestZone ==
    /\ ORBUpdatable
    /\ strategy._long_state = "WAITING_PULLBACK"
    /\ \E kbar_list \in ORBUpdateLists :
          LET close == kbar_list.latest.close
              r == _update_long_state(strategy, kbar_list, close)
          IN  /\ close /= strategy._or_high
              /\ r.strategy._long_state = "TESTING_LEVEL"

\* TESTING_LEVEL and a bounce that passes the filters: the retest entry
C33_WitnessRetestEntry ==
    /\ ORBUpdatable
    /\ strategy._long_state = "TESTING_LEVEL"
    /\ \E kbar_list \in ORBUpdateLists :
          _update_long_state(strategy, kbar_list, kbar_list.latest.close)
              .signal = << "ENTRY_LONG" >>

\* the caller's steps reach an entry from each of the two transitions
C33_WitnessEntryStep ==
    /\ drv.pc = "orb"
    /\ drv.result /= << >>
    /\ drv.result[1].signal_type = "ENTRY_LONG"
    /\ strategy._long_trades_today = 2

\* ------------------------------------------ the short side as a mirror

\* the reflection of the prices about the middle of the price range
ReflectLevel == 2 * ORBPriceBase + ORBPriceStep * ORBPriceLevels

Reflect(price) == IF price = None THEN None ELSE ReflectLevel - price

MirrorBar(kbar) ==
    [high |-> Reflect(kbar.low), low |-> Reflect(kbar.high),
     close |-> Reflect(kbar.close)]

MirrorSide(side) ==
    IF side = "long" THEN "short" ELSE IF side = "short" THEN "long" ELSE side

MirrorSignal(signal_type) ==
    IF signal_type = "ENTRY_LONG" THEN "ENTRY_SHORT"
    ELSE IF signal_type = "ENTRY_SHORT" THEN "ENTRY_LONG"
    ELSE signal_type

\* the strategy with its two sides swapped and its levels reflected
MirrorStrategy(s) ==
    [s EXCEPT !._or_high = Reflect(s._or_low),
              !._or_low = Reflect(s._or_high),
              !._or_mid = Reflect(s._or_mid),
              !._long_state = s._short_state,
              !._short_state = s._long_state,
              !._long_trades_today = s._short_trades_today,
              !._short_trades_today = s._long_trades_today,
              !._long_bars_since_breakout = s._short_bars_since_breakout,
              !._short_bars_since_breakout = s._long_bars_since_breakout,
              !._daily_direction = MirrorSide(s._daily_direction)]

MirrorList(kbar_list) ==
    [kbar_list EXCEPT !.first_high = Reflect(kbar_list.first_low),
                      !.first_low = Reflect(kbar_list.first_high),
                      !.latest = MirrorBar(kbar_list.latest),
                      !.ema_side = MirrorSide(kbar_list.ema_side)]

\* the strategies whose settings have a mirror: long_only has no short_only
MirrorStrategies ==
    { ORBStrategy(m, FALSE, FALSE, None) : m \in 1..MaxEntries }
    \cup { ORBStrategy(1, FALSE, TRUE, 20) }

\* two strategies of the same settings, `strategy` on the bars and
\* fn.strategy on the reflected bars, asked by one caller bar after bar
NewMirrorDriver ==
    [pc |-> "mirror", kbar_list |-> NoKBars, mirror_list |-> NoKBars,
     asking |-> FALSE, result |-> << >>, mirror_result |-> << >>,
     opposite |-> FALSE]

InitMirror ==
    /\ config = DriverConfig
    /\ pm = NewPositionManager(TRUE)
    /\ next_uuid = 1
    /\ drv = NewMirrorDriver
    /\ executor = NoExecutor
    /\ strategy \in MirrorStrategies
    /\ fn = [f |-> "mirror", strategy |-> strategy]

\* a bar on which the caller does not ask the strategies
MirrorBarWithoutEvaluate ==
    /\ drv.pc = "mirror"
    /\ ~drv.asking
    /\ \E at \in NextBarTimes(drv.kbar_list), kbar \in ORBBars :
        drv' = [drv EXCEPT
                  !.kbar_list = AppendBar(strategy, @, at.date, at.time, kbar),
                  !.mirror_list = AppendBar(fn.strategy, @, at.date, at.time,
                                            MirrorBar(kbar)),
                  !.result = << >>, !.mirror_result = << >>]
    /\ UNCHANGED <<strategy, fn, config, pm, next_uuid, executor>>

\* evaluate of both strategies, each on its list with the new latest bar;
\* drv.opposite tells that the strategy on the reflected bars has returned
\* an ENTRY_LONG since its last daily reset
MirrorEvaluate ==
    /\ drv.pc = "mirror"
    /\ \E at \in NextBarTimes(drv.kbar_list), kbar \in ORBBars :
       \E rvol \in IF ORBRangeKnown(at) THEN {None, 20} ELSE {None},
          filters_reject \in IF ORBRangeKnown(at) THEN BOOLEAN ELSE {FALSE},
          ema_side \in IF strategy.use_ema_direction /\ ~ORBRangeKnown(at)
                       THEN {"long", "short"} ELSE {"none"} :
       \E list \in {AppendBar(strategy, drv.kbar_list, at.date, at.time,
                              kbar)},
          mirror_list \in {AppendBar(fn.strategy, drv.mirror_list, at.date,
                                     at.time, MirrorBar(kbar))} :
       \E r \in {evaluate(strategy,
                          ORBKBarList(list, kbar, rvol, None, ema_side,
                                      filters_reject))},
          m \in {evaluate(fn.strategy,
                          ORBKBarList(mirror_list, MirrorBar(kbar), rvol, None,
                                      MirrorSide(ema_side), filters_reject))} :
          /\ strategy' = r.strategy
          /\ fn' = [fn EXCEPT !.strategy = m.strategy]
          /\ drv' = [drv EXCEPT
                  !.kbar_list = list,
                  !.mirror_list = mirror_list,
                  !.asking = r.signal_type = "HOLD" /\ m.signal_type = "HOLD",
                  !.result = << r.signal_type >>,
                  !.mirror_result = << m.signal_type >>,
                  !.opposite =
                      \/ m.signal_type = "ENTRY_LONG"
                      \/ @ /\ ~InSeq(m.calls, "_reset_daily_state")]
    /\ UNCHANGED <<config, pm, next_uuid, executor>>

NextMirror == MirrorBarWithoutEvaluate \/ MirrorEvaluate

SpecMirror == InitMirror /\ [][NextMirror]_vars

\* the short machine of the strategy on the reflected bars is where the
\* long machine of the strategy on the bars is
ShortMachineMirrorsLong ==
    /\ fn.strategy._short_state = strategy._long_state
    /\ fn.strategy._short_bars_since_breakout
         = strategy._long_bars_since_breakout
    /\ fn.strategy._short_trades_today = strategy._long_trades_today

\* C34: on the reflected bars, with the settings of the two sides swapped,
\* evaluate returns ENTRY_SHORT on exactly the bars on which it returns
\* ENTRY_LONG on the bars themselves, and the short machine passes through
\* the states of the long machine
C34_ShortMirrorsLong ==
    drv.pc = "mirror" =>
        /\ ShortMachineMirrorsLong
        /\ drv.result /= << >> =>
              (drv.result[1] = "ENTRY_LONG"
                 <=> drv.mirror_result[1] = "ENTRY_SHORT")

\* what holds of C34: the two runs mirror each other until the strategy on
\* the reflected bars returns an ENTRY_LONG, and again from the next daily
\* reset
C34_MirrorsUntilOppositeEntry ==
    (drv.pc = "mirror" /\ ~drv.opposite) =>
        /\ ShortMachineMirrorsLong
        /\ Reflect(fn.strategy._or_low) = strategy._or_high
        /\ Reflect(fn.strategy._or_mid) = strategy._or_mid
        /\ drv.result /= << >> =>
              (drv.result[1] = "ENTRY_LONG"
                 <=> drv.mirror_result[1] = "ENTRY_SHORT")

\* the two machines as functions: on a strategy whose opening range has an
\* even sum of high and low, the short machine on the swapped strategy and
\* the reflected bar returns the mirror of what the long machine returns
C34_MachinesMirrorOnEvenRange ==
    (drv.pc = "mirror" /\ strategy._or_calculated
       /\ strategy._or_range >= MinORRange) =>
        \A kbar_list \in ORBUpdateLists :
            LET l == _update_long_state(strategy, kbar_list,
                                        kbar_list.latest.close)
                s == _update_short_state(MirrorStrategy(strategy),
                                         MirrorList(kbar_list),
                                         Reflect(kbar_list.latest.close))
            IN  /\ s.strategy = MirrorStrategy(l.strategy)
                /\ s.signal = [k \in DOMAIN l.signal |->
                                  MirrorSignal(l.signal[k])]

\* the same strategy with an opening range one point higher (an odd sum):
\* OR_Mid is floored, and on a close at OR_Mid the short machine on the
\* reflected bar leaves the state the long machine stays in
C34_OddRangeBreaksMirror ==
    /\ drv.pc = "mirror" /\ strategy._or_calculated
    /\ strategy._or_range >= MinORRange
    /\ strategy._long_state = "WAITING_PULLBACK"
    /\ \E kbar_list \in ORBUpdateLists :
          LET odd == [strategy EXCEPT
                        !._or_high = @ + 1,
                        !._or_range = @ + 1,
                        !._or_mid = (strategy._or_high + 1
                                     + strategy._or_low) \div 2]
              swapped == [MirrorStrategy(odd) EXCEPT
                            !._or_mid = (Reflect(odd._or_low)
                                         + Reflect(odd._or_high)) \div 2]
              l == _update_long_state(odd, kbar_list, kbar_list.latest.close)
              s == _update_short_state(swapped, MirrorList(kbar_list),
                                       Reflect(kbar_list.latest.close))
          IN  /\ l.strategy._long_state = "WAITING_PULLBACK"
              /\ s.strategy._short_state = "IDLE"

\* the strategy on the bars has returned an ENTRY_LONG that the strategy on
\* the reflected bars answered with an ENTRY_SHORT
C34_MirroredEntry ==
    /\ drv.pc = "mirror"
    /\ drv.result = << "ENTRY_LONG" >>
    /\ drv.mirror_result = << "ENTRY_SHORT" >>

\* ----------------- strategies/orb_strategy.py: _build_entry_metadata

\* the sessions of the day before, as the strategy keeps them
MetaLevelPrices == {90, 104, 113, 125}

SessionOHLCs ==
    { o \in [high : MetaLevelPrices, low : MetaLevelPrices,
             close : MetaLevelPrices] : o.low <= o.close /\ o.close <= o.high }

\* the settings _build_entry_metadata reads (multipliers in tenths,
\* percentages in hundredths) and the state of the day
ORBEntrySettings(tp_multiplier, use_key_level_tp, fixed_tp_points, use_key_level_trailing, use_key_level_tp_max) ==
    [name |-> "ORB Strategy",
     tp_multiplier |-> tp_multiplier,
     ts_start_multiplier |-> 10, ts_distance_ratio |-> 5,
     use_key_level_tp |-> use_key_level_tp,
     key_level_tp_min_pct |-> 50,
     fixed_tp_points |-> fixed_tp_points,
     use_key_level_trailing |-> use_key_level_trailing,
     use_key_level_tp_max |-> use_key_level_tp_max,
     key_level_min_distance_pct |-> 0, key_level_buffer |-> 10,
     _or_high |-> None, _or_low |-> None, _or_mid |-> None,
     _or_range |-> None, _prev_day |-> << >>, _prev_night |-> << >>]

RECURSIVE SortedAscending(_)
SortedAscending(levels) ==
    IF levels = {} THEN << >>
    ELSE LET least == CHOOSE lv \in levels : \A other \in levels : lv <= other
         IN  << least >> \o SortedAscending(levels \ {least})

Reversed(seq) == [k \in 1..Len(seq) |-> seq[Len(seq) + 1 - k]]

\* the first level of the sequence at least min_tp from the reference:
\* << >> for None or << dist >>
RECURSIVE FirstFarEnough(_, _, _)
FirstFarEnough(levels, reference, min_tp) ==
    IF levels = << >> THEN << >>
    ELSE LET dist == IF levels[1] > reference THEN levels[1] - reference
                     ELSE reference - levels[1]
         IN  IF dist >= min_tp THEN << dist >>
             ELSE FirstFarEnough(Tail(levels), reference, min_tp)

\* the variant that takes the nearest level whatever its distance
_compute_key_level_tp_nearest(s, is_long, min_tp) ==
    LET candidates ==
            UNION { {o.high, o.close, o.low} :
                      o \in {s._prev_day[k] : k \in DOMAIN s._prev_day}
                            \cup {s._prev_night[k] : k \in DOMAIN s._prev_night} }
    IN  IF is_long
        THEN FirstFarEnough(
                 SortedAscending({lv \in candidates : lv > s._or_high}),
                 s._or_high, 0)
        ELSE FirstFarEnough(
                 Reversed(SortedAscending({lv \in candidates : lv < s._or_low})),
                 s._or_low, 0)

_compute_key_level_tp(s, is_long, min_tp) ==
    LET candidates ==
            UNION { {o.high, o.close, o.low} :
                      o \in {s._prev_day[k] : k \in DOMAIN s._prev_day}
                            \cup {s._prev_night[k] : k \in DOMAIN s._prev_night} }
        or_high == IF s._or_high = None THEN 0 ELSE s._or_high
        or_low == IF s._or_low = None THEN 999999 ELSE s._or_low
    IN  IF is_long
        THEN FirstFarEnough(
                 SortedAscending({lv \in candidates : lv > or_high}),
                 or_high, min_tp)
        ELSE FirstFarEnough(
                 Reversed(SortedAscending({lv \in candidates : lv < or_low})),
                 or_low, min_tp)

\* the metadata of an entry signal: the dict, of which the model keeps the
\* keys the position manager reads for its stops and targets
_build_entry_metadata(s, is_long) ==
    LET or_range == IF s._or_range = None THEN 0 ELSE s._or_range
        tp0 == (s.tp_multiplier * or_range) \div 10
        min_tp == (s.key_level_tp_min_pct * or_range) \div 100
        kl_tp == IF s.use_key_level_tp /\ or_range > 0
                 THEN _compute_key_level_tp(s, is_long, min_tp)
                 ELSE << >>
        tp1 == IF kl_tp /= << >> THEN kl_tp[1] ELSE tp0
        tp_points == IF s.fixed_tp_points > 0
                     THEN Maximum(s.fixed_tp_points, tp1) ELSE tp1
        meta0 == [k \in {"override_start_trailing_stop_points",
                         "override_trailing_stop_points",
                         "override_stop_loss_price"} |->
                     IF k = "override_start_trailing_stop_points"
                     THEN (s.ts_start_multiplier * or_range) \div 10
                     ELSE IF k = "override_trailing_stop_points"
                     THEN (s.ts_distance_ratio * or_range) \div 10
                     ELSE s._or_mid]
        meta1 == IF tp_points > 0
                 THEN Put(meta0, "override_take_profit_points", tp_points)
                 ELSE meta0
        min_dist == (s.key_level_min_distance_pct * or_range) \div 100
        or_high == IF s._or_high = None THEN 0 ELSE s._or_high
        or_low == IF s._or_low = None THEN 999999 ELSE s._or_low
        day == {s._prev_day[k] : k \in DOMAIN s._prev_day}
        night == {s._prev_night[k] : k \in DOMAIN s._prev_night}
        key_levels ==
            IF is_long
            THEN SortedAscending(
                     {lv \in UNION ({{o.high, o.close} : o \in day}
                                    \cup {{o.high} : o \in night}) :
                         lv > or_high + min_dist})
            ELSE Reversed(SortedAscending(
                     {lv \in UNION ({{o.low, o.close} : o \in day}
                                    \cup {{o.low} : o \in night}) :
                         lv < or_low - min_dist}))
        meta2 == Put(Put(meta1, "key_levels", key_levels),
                     "key_level_buffer", s.key_level_buffer)
        kl_tp_max == IF key_levels = << >> THEN 0
                     ELSE IF is_long
                     THEN key_levels[Len(key_levels)] - or_high
                     ELSE or_low - key_levels[Len(key_levels)]
        meta3 == IF s.use_key_level_tp_max /\ kl_tp_max > 0
                 THEN Put(meta2, "override_take_profit_points",
                          Maximum(Get(meta2, "override_take_profit_points", 0),
                                  kl_tp_max))
                 ELSE meta2
    IN  IF s.use_key_level_trailing /\ key_levels /= << >> THEN meta3
        ELSE meta1

\* the strategies and the days the metadata is built on
EntrySettings ==
    { ORBEntrySettings(m, kl, fixed, trailing, tp_max) :
        m \in {0, 20}, kl \in BOOLEAN, fixed \in {0, 12, 30},
        trailing \in BOOLEAN, tp_max \in BOOLEAN }

InitMeta ==
    /\ config = DriverConfig
    /\ pm = NewPositionManager(TRUE)
    /\ next_uuid = 1
    /\ drv = [pc |-> "meta", result |-> << >>]
    /\ executor = NoExecutor
    /\ fn = NoFn
    /\ strategy \in EntrySettings

\* the opening range and the previous sessions of a day are computed
MetaOpeningRange ==
    /\ drv.pc = "meta"
    /\ \E or_low \in {100}, or_range \in {10, 20},
          day \in {<< >>} \cup {<< o >> : o \in SessionOHLCs},
          night \in {<< >>, << [high |-> 125, low |-> 90, close |-> 104] >>} :
          strategy' = [strategy EXCEPT
                         !._or_high = or_low + or_range,
                         !._or_low = or_low,
                         !._or_mid = (2 * or_low + or_range) \div 2,
                         !._or_range = or_range,
                         !._prev_day = day, !._prev_night = night]
    /\ drv' = [drv EXCEPT !.result = << >>]
    /\ UNCHANGED <<config, pm, next_uuid, executor, fn>>

\* an entry signal of the day is built
MetaEntry ==
    /\ drv.pc = "meta"
    /\ strategy._or_range /= None
    /\ \E is_long \in BOOLEAN :
          drv' = [drv EXCEPT
                    !.result = << [is_long |-> is_long,
                                   metadata |->
                                       _build_entry_metadata(strategy,
                                                             is_long)] >>]
    /\ UNCHANGED <<strategy, config, pm, next_uuid, executor, fn>>

NextMeta == MetaOpeningRange \/ MetaEntry

SpecMeta == InitMeta /\ [][NextMeta]_vars

\* the take-profit candidates of the built entry
MultiplierTp == (strategy.tp_multiplier * strategy._or_range) \div 10

\* the distances from the range's edge to the levels beyond it
LevelDistances(is_long) ==
    LET levels == UNION { {o.high, o.close, o.low} :
                    o \in {strategy._prev_day[k] :
                             k \in DOMAIN strategy._prev_day}
                          \cup {strategy._prev_night[k] :
                                  k \in DOMAIN strategy._prev_night} }
    IN  IF is_long
        THEN {lv - strategy._or_high : lv \in {l \in levels :
                                                  l > strategy._or_high}}
        ELSE {strategy._or_low - lv : lv \in {l \in levels :
                                                 l < strategy._or_low}}

\* the key-level take-profit distance: the nearest level at least
\* key_level_tp_min_pct of the range away, << >> when there is none
KeyLevelTp(is_long) ==
    LET far == {dist \in LevelDistances(is_long) :
                   dist >= (strategy.key_level_tp_min_pct
                            * strategy._or_range) \div 100}
    IN  IF ~strategy.use_key_level_tp \/ far = {} THEN << >>
        ELSE << CHOOSE dist \in far : \A other \in far : dist <= other >>

SetMaximum(values) ==
    CHOOSE v \in values : \A other \in values : v >= other

BuiltTp == Get(drv.result[1].metadata, "override_take_profit_points", None)

BuiltEntry == drv.pc = "meta" /\ drv.result /= << >>

\* C35: the override_take_profit_points of every entry is the maximum of
\* the active candidates: tp_multiplier x OR_Range, the key-level distance
\* when enabled and found, and fixed_tp_points when set
C35_TakeProfitIsMaximum ==
    BuiltEntry =>
        LET kl == KeyLevelTp(drv.result[1].is_long)
        IN  BuiltTp = SetMaximum({MultiplierTp}
                          \cup {kl[k] : k \in DOMAIN kl}
                          \cup (IF strategy.fixed_tp_points > 0
                                THEN {strategy.fixed_tp_points} ELSE {}))

\* the metadata's key levels end at the farthest one
FarthestKeyLevelDistance ==
    LET meta == drv.result[1].metadata
        levels == Get(meta, "key_levels", << >>)
    IN  IF levels = << >> \/ ~strategy.use_key_level_tp_max THEN 0
        ELSE IF drv.result[1].is_long
        THEN levels[Len(levels)] - strategy._or_high
        ELSE strategy._or_low - levels[Len(levels)]

\* C35 as the code has it: the key-level distance, when enabled and found,
\* takes the place of tp_multiplier x OR_Range; the result is raised to
\* fixed_tp_points when set, and to the distance of the farthest key level
\* when use_key_level_tp_max is on and key levels are passed; the key is
\* left out when the result is not positive
C35_TakeProfitAsBuilt ==
    BuiltEntry =>
        LET kl == KeyLevelTp(drv.result[1].is_long)
            base == IF kl /= << >> THEN kl[1] ELSE MultiplierTp
            floored == IF strategy.fixed_tp_points > 0
                       THEN Maximum(strategy.fixed_tp_points, base) ELSE base
            tp == Maximum(floored, FarthestKeyLevelDistance)
        IN  BuiltTp = IF tp > 0 THEN tp ELSE None

\* an entry whose key-level distance is under tp_multiplier x OR_Range and
\* above fixed_tp_points: the metadata carries the key-level distance
C35_Witness ==
    /\ BuiltEntry
    /\ KeyLevelTp(drv.result[1].is_long) /= << >>
    /\ KeyLevelTp(drv.result[1].is_long)[1] < MultiplierTp
    /\ strategy.fixed_tp_points > 0
    /\ BuiltTp = KeyLevelTp(drv.result[1].is_long)[1]
    /\ \E dist \in LevelDistances(drv.result[1].is_long) :
          dist < BuiltTp

\* an entry without any positive candidate: no override in the metadata
C35_WitnessNoOverride == BuiltEntry /\ BuiltTp = None

\* an entry raised to the farthest key level
C35_WitnessFarthest ==
    /\ BuiltEntry
    /\ FarthestKeyLevelDistance > 0
    /\ BuiltTp = FarthestKeyLevelDistance
    /\ BuiltTp > MultiplierTp

\* ----------------- strategies/scalp_strategy.py

\* bounds of the scalp harness
ScalpLookback == 2
ScalpConsecutive == 2
ScalpMaxTime == 9
ScalpCounterCap == 1000

\* times are bar indexes of one day: the session is [2, 8)
ScalpStrategy(entry_mode, long_only, short_only, cooldown_bars) ==
    [name |-> "Scalp Strategy",
     session_start_time |-> 2, entry_end_time |-> 8,
     entry_mode |-> entry_mode,
     breakout_lookback |-> ScalpLookback, breakout_min_strength |-> 60,
     reversal_consecutive |-> ScalpConsecutive, reversal_min_strength |-> 65,
     long_only |-> long_only, short_only |-> short_only,
     cooldown_bars |-> cooldown_bars,
     _bars_since_last_exit |-> 999]

\* KBarList.get_latest
get_latest(kbars, count) ==
    IF count <= 0 THEN << >>
    ELSE SubSeq(kbars, Maximum(1, Len(kbars) - count + 1), Len(kbars))

\* "none" or the signal type of the entry
_check_breakout(s, recent) ==
    IF Len(recent) < s.breakout_lookback + 1 THEN "none"
    ELSE LET current_bar == recent[Len(recent)]
             lookback_bars == SubSeq(recent, Len(recent) - s.breakout_lookback,
                                     Len(recent) - 1)
             highest == SetMaximum({lookback_bars[k].high :
                                      k \in DOMAIN lookback_bars})
             lowest == -SetMaximum({-lookback_bars[k].low :
                                      k \in DOMAIN lookback_bars})
             strength == candle_strength(current_bar)
         IN  IF ~s.short_only /\ current_bar.close > highest
                /\ strength >= s.breakout_min_strength
             THEN "ENTRY_LONG"
             ELSE IF ~s.long_only /\ current_bar.close < lowest
                     /\ strength <= 100 - s.breakout_min_strength
             THEN "ENTRY_SHORT"
             ELSE "none"

_check_reversal(s, recent) ==
    LET n == s.reversal_consecutive
    IN  IF Len(recent) < n + 1 THEN "none"
        ELSE LET current_bar == recent[Len(recent)]
                 prev_bars == SubSeq(recent, Len(recent) - n, Len(recent) - 1)
                 current_strength == candle_strength(current_bar)
                 all_bearish == \A k \in DOMAIN prev_bars :
                                   prev_bars[k].close < prev_bars[k].open
                 all_bullish == \A k \in DOMAIN prev_bars :
                                   prev_bars[k].close > prev_bars[k].open
             IN  IF ~s.short_only /\ all_bearish
                    /\ current_strength >= s.reversal_min_strength
                    /\ current_bar.close > current_bar.open
                 THEN "ENTRY_LONG"
                 ELSE IF ~s.long_only /\ all_bullish
                         /\ current_strength <= 100 - s.reversal_min_strength
                         /\ current_bar.close < current_bar.open
                 THEN "ENTRY_SHORT"
                 ELSE "none"

\* the detection part of evaluate, after the cooldown check
ScalpDetect(s, kbars) ==
    LET lookback == Maximum(s.breakout_lookback, s.reversal_consecutive + 1)
        recent == get_latest(kbars, lookback + 1)
        breakout == IF s.entry_mode \in {"breakout", "both"}
                    THEN _check_breakout(s, recent) ELSE "none"
        signal == IF breakout = "none" /\ s.entry_mode \in {"reversal", "both"}
                  THEN _check_reversal(s, recent) ELSE breakout
    IN  IF signal /= "none" THEN signal ELSE "HOLD"

\* the call got past the length and session checks
ScalpInSession(s, kbars) ==
    /\ Len(kbars) >= s.breakout_lookback + 2
    /\ kbars[Len(kbars)].time >= s.session_start_time
    /\ kbars[Len(kbars)].time < s.entry_end_time

\* ScalpStrategy.evaluate: [strategy, signal_type]; the counter, which
\* the code only compares with cooldown_bars, stops at ScalpCounterCap
ScalpStrategy_evaluate(s, kbars) ==
    IF ~ScalpInSession(s, kbars)
    THEN [strategy |-> s, signal_type |-> "HOLD"]
    ELSE LET s1 == [s EXCEPT !._bars_since_last_exit =
                        Minimum(s._bars_since_last_exit + 1, ScalpCounterCap)]
         IN  IF s1._bars_since_last_exit < s1.cooldown_bars
             THEN [strategy |-> s1, signal_type |-> "HOLD"]
             ELSE [strategy |-> s1, signal_type |-> ScalpDetect(s1, kbars)]

\* the variant that leaves the counter as it is
ScalpStrategy_on_position_closed_keeps(s) == s

ScalpStrategy_on_position_closed(s) ==
    [s EXCEPT !._bars_since_last_exit = 0]

\* the bars: one level up, one level down or flat, on three price levels
ScalpBars(time) ==
    { [time |-> time, open |-> oc[1], close |-> oc[2],
       high |-> Maximum(oc[1], oc[2]), low |-> Minimum(oc[1], oc[2])] :
        oc \in {<<100, 110>>, <<110, 120>>, <<120, 110>>, <<110, 100>>,
                <<110, 110>>} }

\* the list keeps the bars evaluate can read: its latest
\* breakout_lookback + 2
ScalpAppend(kbars, kbar) == get_latest(kbars \o << kbar >>, ScalpLookback + 2)

ScalpStrategies ==
    { ScalpStrategy(mode, FALSE, FALSE, cooldown) :
        mode \in {"breakout", "reversal", "both"}, cooldown \in 1..3 }
    \cup { ScalpStrategy("both", TRUE, FALSE, 2),
           ScalpStrategy("both", FALSE, TRUE, 2) }

\* drv.since counts the calls of evaluate that got past the session checks
\* since the last on_position_closed (None before the first)
InitScalp ==
    /\ config = DriverConfig
    /\ pm = NewPositionManager(TRUE)
    /\ next_uuid = 1
    /\ drv = [pc |-> "scalp", kbars |-> << >>, time |-> 0, holding |-> FALSE,
              since |-> None, last |-> << >>]
    /\ executor = NoExecutor
    /\ fn = NoFn
    /\ strategy \in ScalpStrategies

\* a bar without a position: the driver calls evaluate; an entry signal
\* opens a position
ScalpEvaluate ==
    /\ drv.pc = "scalp" /\ ~drv.holding /\ drv.time < ScalpMaxTime
    /\ \E kbar \in ScalpBars(drv.time + 1) :
          LET kbars == ScalpAppend(drv.kbars, kbar)
              counted == ScalpInSession(strategy, kbars) /\ drv.since /= None
              since == IF counted THEN drv.since + 1 ELSE drv.since
          IN  \E r \in {ScalpStrategy_evaluate(strategy, kbars)} :
                 /\ strategy' = r.strategy
                 /\ drv' = [drv EXCEPT
                              !.kbars = kbars, !.time = drv.time + 1,
                              !.holding = r.signal_type /= "HOLD",
                              !.since = since,
                              !.last = << [counted |-> counted,
                                           since |-> since,
                                           signal_type |-> r.signal_type,
                                           detected |->
                                               ScalpDetect(strategy, kbars)] >>]
    /\ UNCHANGED <<config, pm, next_uuid, executor, fn>>

\* a bar on which the position stays open: no call of the strategy
ScalpHeldBar ==
    /\ drv.pc = "scalp" /\ drv.holding /\ drv.time < ScalpMaxTime
    /\ \E kbar \in ScalpBars(drv.time + 1) :
          drv' = [drv EXCEPT !.kbars = ScalpAppend(drv.kbars, kbar),
                             !.time = drv.time + 1, !.last = << >>]
    /\ UNCHANGED <<strategy, config, pm, next_uuid, executor, fn>>

\* a bar on which the position is closed: on_position_closed is called
ScalpPositionClosed ==
    /\ drv.pc = "scalp" /\ drv.holding /\ drv.time < ScalpMaxTime
    /\ \E kbar \in ScalpBars(drv.time + 1) :
          drv' = [drv EXCEPT !.kbars = ScalpAppend(drv.kbars, kbar),
                             !.time = drv.time + 1, !.holding = FALSE,
                             !.since = 0, !.last = << >>]
    /\ strategy' = ScalpStrategy_on_position_closed(strategy)
    /\ UNCHANGED <<config, pm, next_uuid, executor, fn>>

NextScalp == ScalpEvaluate \/ ScalpHeldBar \/ ScalpPositionClosed

SpecScalp == InitScalp /\ [][NextScalp]_vars

\* the latest step was an in-session call of evaluate after an exit
ScalpCallAfterExit ==
    drv.pc = "scalp" /\ drv.last /= << >> /\ drv.last[1].counted

\* C36: after on_position_closed each of the next cooldown_bars in-session
\* calls of evaluate returns HOLD
C36_HoldForCooldownBars ==
    ScalpCallAfterExit /\ drv.last[1].since <= strategy.cooldown_bars
        => drv.last[1].signal_type = "HOLD"

\* C36 as the code has it: the counter counts the call itself, so the
\* next cooldown_bars - 1 in-session calls return HOLD, and from the
\* cooldown_bars-th call on evaluate returns what its detection finds
C36_HoldForCooldownBarsLessOne ==
    ScalpCallAfterExit =>
        /\ strategy._bars_since_last_exit = drv.last[1].since
        /\ drv.last[1].signal_type =
               IF drv.last[1].since < strategy.cooldown_bars THEN "HOLD"
               ELSE drv.last[1].detected

\* a call within the cooldown on bars that would otherwise give an entry
C36_Witness ==
    /\ ScalpCallAfterExit
    /\ drv.last[1].since < strategy.cooldown_bars
    /\ drv.last[1].detected /= "HOLD"
    /\ drv.last[1].signal_type = "HOLD"

\* the cooldown_bars-th call after the exit returns an entry
C36_WitnessEntryAtCooldown ==
    /\ ScalpCallAfterExit
    /\ drv.last[1].since = strategy.cooldown_bars
    /\ strategy.cooldown_bars >= 2
    /\ drv.last[1].signal_type \in {"ENTRY_LONG", "ENTRY_SHORT"}

\* ----------------- strategies/bollinger_strategy.py

\* bounds of the Bollinger harness
BBPeriod == 2
BBTrendFilterBars == 2
BBMaxTime == 4
BBMaxDate == 2
BBCounterCap == 1000

\* times are bar indexes of a day: entries in [1, 4)
BollingerStrategy(tp_target, long_only, short_only, max_entries_per_day) ==
    [name |-> "Bollinger Strategy",
     bb_period |-> BBPeriod,
     session_start_time |-> 1, entry_end_time |-> 4, session_end_time |-> 5,
     tp_target |-> tp_target, tp_buffer |-> 5,
     hybrid_ts_trail_points |-> 30, sl_buffer |-> 10,
     trend_filter_bars |-> BBTrendFilterBars,
     long_only |-> long_only, short_only |-> short_only,
     max_entries_per_day |-> max_entries_per_day,
     cooldown_bars |-> 2,
     _current_date |-> None, _state |-> "IDLE", _trades_today |-> 0,
     _bars_since_exit |-> 999,
     _reversal_bar |-> << >>, _recent_low |-> 0, _recent_high |-> 0]

BollingerStrategy_reset_daily_state(s) ==
    [s EXCEPT !._state = "IDLE", !._trades_today = 0,
              !._bars_since_exit = 999, !._reversal_bar = << >>,
              !._recent_low = 0, !._recent_high = 0]

_track_low(s, bar) == [s EXCEPT !._recent_low = Minimum(s._recent_low, bar.low)]

_track_high(s, bar) ==
    [s EXCEPT !._recent_high = Maximum(s._recent_high, bar.high)]

_is_reversal_bullish(bar) ==
    LET body == IF bar.close >= bar.open THEN bar.close - bar.open
                ELSE bar.open - bar.close
        lower_shadow == Minimum(bar.open, bar.close) - bar.low
        bar_range == bar.high - bar.low
    IN  IF bar_range <= 0 THEN FALSE
        ELSE IF bar.close > bar.open /\ 10 * body > 2 * bar_range THEN TRUE
        ELSE 10 * lower_shadow > 4 * bar_range

_is_reversal_bearish(bar) ==
    LET body == IF bar.close >= bar.open THEN bar.close - bar.open
                ELSE bar.open - bar.close
        upper_shadow == bar.high - Maximum(bar.open, bar.close)
        bar_range == bar.high - bar.low
    IN  IF bar_range <= 0 THEN FALSE
        ELSE IF bar.close < bar.open /\ 10 * body > 2 * bar_range THEN TRUE
        ELSE 10 * upper_shadow > 4 * bar_range

\* the list as the strategy reads it: its length, the time of the latest
\* bar, the latest trend_filter_bars bars (recent) and the bands the
\* indicator service computes on it
_is_hugging_band(s, kbar_list, upper, lower) ==
    LET n == s.trend_filter_bars
    IN  IF kbar_list.len < n THEN FALSE
        ELSE LET recent == get_latest(kbar_list.kbars, n)
             IN  \/ \A k \in DOMAIN recent :
                       1000 * recent[k].close >= 998 * upper
                 \/ \A k \in DOMAIN recent :
                       1000 * recent[k].close <= 1002 * lower

\* the metadata of an entry
BBEntryMetadata(s, is_long, current_price, upper, middle, lower) ==
    LET sl_price == IF is_long THEN s._recent_low - s.sl_buffer
                    ELSE s._recent_high + s.sl_buffer
        entry == current_price
        mid_dist == IF is_long THEN middle - s.tp_buffer - entry
                    ELSE entry - (middle + s.tp_buffer)
        opp_dist == IF is_long THEN upper - s.tp_buffer - entry
                    ELSE entry - (lower + s.tp_buffer)
        tp_dist == IF s.tp_target = "opposite" THEN opp_dist ELSE mid_dist
    IN  [override_stop_loss_price |-> sl_price,
         override_take_profit_points |-> Maximum(tp_dist, 20),
         override_start_trailing_stop_points |->
             IF s.tp_target = "hybrid" THEN Maximum(mid_dist, 20) ELSE None,
         override_trailing_stop_points |->
             IF s.tp_target = "hybrid" THEN s.hybrid_ts_trail_points ELSE None]

\* the REVERSAL_LONG branch that does not look at the reversal bar's high
ReversalLongBreaks_always(s, close) == TRUE

\* the REVERSAL_LONG branch's entry condition
ReversalLongBreaks(s, close) ==
    s._reversal_bar /= << >> /\ close > s._reversal_bar[1].high

ReversalShortBreaks(s, close) ==
    s._reversal_bar /= << >> /\ close < s._reversal_bar[1].low

\* [strategy, signal_type, metadata]
_update_state(s, bar, prev, close, upper, middle, lower, current_price) ==
    LET none(s1) == [strategy |-> s1, signal_type |-> "none",
                     metadata |-> << >>]
    IN  IF s._state = "IDLE"
        THEN IF ~s.short_only /\ close <= lower
             THEN none(_track_low([s EXCEPT !._state = "TOUCH_LOWER",
                                            !._recent_low = bar.low], prev))
             ELSE IF ~s.long_only /\ close >= upper
             THEN none(_track_high([s EXCEPT !._state = "TOUCH_UPPER",
                                             !._recent_high = bar.high], prev))
             ELSE none(s)
        ELSE IF s._state = "TOUCH_LOWER"
        THEN LET s1 == _track_low(s, bar)
             IN  IF _is_reversal_bullish(bar)
                 THEN none([s1 EXCEPT !._state = "REVERSAL_LONG",
                                      !._reversal_bar = << bar >>])
                 ELSE IF close > middle
                 THEN none([s1 EXCEPT !._state = "IDLE"])
                 ELSE none(s1)
        ELSE IF s._state = "REVERSAL_LONG"
        THEN IF ReversalLongBreaks(s, close)
             THEN [strategy |-> [s EXCEPT !._state = "IDLE",
                                          !._trades_today = @ + 1],
                   signal_type |-> "ENTRY_LONG",
                   metadata |-> << BBEntryMetadata(s, TRUE, current_price,
                                                   upper, middle, lower) >>]
             ELSE IF close <= lower
             THEN none(_track_low([s EXCEPT !._state = "TOUCH_LOWER"], bar))
             ELSE IF close > middle
             THEN none([s EXCEPT !._state = "IDLE"])
             ELSE none(s)
        ELSE IF s._state = "TOUCH_UPPER"
        THEN LET s1 == _track_high(s, bar)
             IN  IF _is_reversal_bearish(bar)
                 THEN none([s1 EXCEPT !._state = "REVERSAL_SHORT",
                                      !._reversal_bar = << bar >>])
                 ELSE IF close < middle
                 THEN none([s1 EXCEPT !._state = "IDLE"])
                 ELSE none(s1)
        ELSE IF s._state = "REVERSAL_SHORT"
        THEN IF ReversalShortBreaks(s, close)
             THEN [strategy |-> [s EXCEPT !._state = "IDLE",
                                          !._trades_today = @ + 1],
                   signal_type |-> "ENTRY_SHORT",
                   metadata |-> << BBEntryMetadata(s, FALSE, current_price,
                                                   upper, middle, lower) >>]
             ELSE IF close >= upper
             THEN none(_track_high([s EXCEPT !._state = "TOUCH_UPPER"], bar))
             ELSE IF close < middle
             THEN none([s EXCEPT !._state = "IDLE"])
             ELSE none(s)
        ELSE none(s)

\* BollingerStrategy.evaluate: [strategy, signal_type, metadata, vetoed]
BollingerStrategy_evaluate(s, kbar_list, current_price) ==
    LET hold(s1, vetoed) == [strategy |-> s1, signal_type |-> "HOLD",
                             metadata |-> << >>, vetoed |-> vetoed]
        s1 == IF s._current_date = None \/ kbar_list.date /= s._current_date
              THEN [BollingerStrategy_reset_daily_state(s)
                       EXCEPT !._current_date = kbar_list.date]
              ELSE s
        t == kbar_list.time
        s2 == [s1 EXCEPT !._bars_since_exit =
                  Minimum(s1._bars_since_exit + 1, BBCounterCap)]
        latest == kbar_list.kbars[Len(kbar_list.kbars)]
        prev == kbar_list.kbars[Len(kbar_list.kbars) - 1]
    IN  IF kbar_list.len < s.bb_period + 2 THEN hold(s, FALSE)
        ELSE IF s.session_start_time /= 0
                /\ (t < s.session_start_time \/ t >= s.session_end_time
                    \/ t >= s.entry_end_time)
        THEN hold(s1, FALSE)
        ELSE IF s1._trades_today >= s1.max_entries_per_day
        THEN hold(s1, FALSE)
        ELSE IF s2._bars_since_exit < s2.cooldown_bars THEN hold(s2, FALSE)
        ELSE IF _is_hugging_band(s2, kbar_list, kbar_list.upper,
                                 kbar_list.lower)
        THEN hold([s2 EXCEPT !._state = "IDLE"], TRUE)
        ELSE LET r == _update_state(s2, latest, prev, latest.close,
                                    kbar_list.upper, kbar_list.middle,
                                    kbar_list.lower, current_price)
             IN  IF r.signal_type /= "none"
                 THEN [strategy |-> r.strategy, signal_type |-> r.signal_type,
                       metadata |-> r.metadata, vetoed |-> FALSE]
                 ELSE hold(r.strategy, FALSE)

BollingerStrategy_on_position_closed(s) ==
    [s EXCEPT !._bars_since_exit = 0, !._state = "IDLE"]

\* the bars: flat, rising and falling by one step, at four closes
BBBars ==
    { [open |-> c, high |-> c, low |-> c, close |-> c] : c \in {95, 105, 115, 125} }
    \cup { [open |-> c - 10, high |-> c, low |-> c - 10, close |-> c] :
             c \in {95, 105, 115, 125} }
    \cup { [open |-> c + 10, high |-> c + 10, low |-> c, close |-> c] :
             c \in {95, 105, 115, 125} }

BBNextTimes(kbar_list) ==
    IF kbar_list.date = None THEN {[date |-> 1, time |-> 0]}
    ELSE IF kbar_list.time < BBMaxTime
    THEN {[date |-> kbar_list.date, time |-> kbar_list.time + 1]}
    ELSE {[date |-> d, time |-> 0] :
            d \in {kbar_list.date + 1} \cap (1..BBMaxDate)}

\* the list with one more bar; its bands are those of the latest bb_period
\* closes, given here as the indicator's result
BBAppend(kbar_list, at, kbar) ==
    [len |-> Minimum(kbar_list.len + 1, BBPeriod + 2),
     date |-> at.date, time |-> at.time,
     kbars |-> get_latest(kbar_list.kbars \o << kbar >>,
                          Maximum(2, BBTrendFilterBars)),
     upper |-> 120, middle |-> 110, lower |-> 100]

BollingerStrategies ==
    { BollingerStrategy("middle", FALSE, FALSE, 99),
      BollingerStrategy("hybrid", FALSE, FALSE, 1),
      BollingerStrategy("opposite", TRUE, FALSE, 99),
      BollingerStrategy("middle", FALSE, TRUE, 99) }

InitBollinger ==
    /\ config = DriverConfig
    /\ pm = NewPositionManager(TRUE)
    /\ next_uuid = 1
    /\ drv = [pc |-> "bb",
              kbar_list |-> [len |-> 0, date |-> None, time |-> None,
                             kbars |-> << >>, upper |-> 120, middle |-> 110,
                             lower |-> 100],
              holding |-> FALSE, last |-> << >>]
    /\ executor = NoExecutor
    /\ fn = NoFn
    /\ strategy \in BollingerStrategies

\* a bar without a position: evaluate is called; an entry opens a position
BBEvaluate ==
    /\ drv.pc = "bb" /\ ~drv.holding
    /\ \E at \in BBNextTimes(drv.kbar_list), kbar \in BBBars :
          LET kbar_list == BBAppend(drv.kbar_list, at, kbar)
          IN  \E r \in {BollingerStrategy_evaluate(strategy, kbar_list,
                                                   kbar.close)} :
                 /\ strategy' = r.strategy
                 /\ drv' = [drv EXCEPT
                              !.kbar_list = kbar_list,
                              !.holding = r.signal_type /= "HOLD",
                              !.last = << [op |-> "evaluate",
                                           from |-> strategy._state,
                                           reversal_bar |->
                                               strategy._reversal_bar,
                                           new_day |-> strategy._current_date
                                                          /= kbar_list.date,
                                           close |-> kbar.close,
                                           signal_type |-> r.signal_type,
                                           vetoed |-> r.vetoed] >>]
    /\ UNCHANGED <<config, pm, next_uuid, executor, fn>>

\* a bar on which the position stays open
BBHeldBar ==
    /\ drv.pc = "bb" /\ drv.holding
    /\ \E at \in BBNextTimes(drv.kbar_list), kbar \in BBBars :
          drv' = [drv EXCEPT !.kbar_list = BBAppend(drv.kbar_list, at, kbar),
                             !.last = << >>]
    /\ UNCHANGED <<strategy, config, pm, next_uuid, executor, fn>>

\* a bar on which the position is closed
BBPositionClosed ==
    /\ drv.pc = "bb" /\ drv.holding
    /\ \E at \in BBNextTimes(drv.kbar_list), kbar \in BBBars :
          drv' = [drv EXCEPT !.kbar_list = BBAppend(drv.kbar_list, at, kbar),
                             !.holding = FALSE,
                             !.last = << [op |-> "on_position_closed",
                                          from |-> strategy._state,
                                          reversal_bar |->
                                              strategy._reversal_bar,
                                          new_day |-> FALSE,
                                          close |-> kbar.close,
                                          signal_type |-> "HOLD",
                                          vetoed |-> FALSE] >>]
    /\ strategy' = BollingerStrategy_on_position_closed(strategy)
    /\ UNCHANGED <<config, pm, next_uuid, executor, fn>>

NextBollinger == BBEvaluate \/ BBHeldBar \/ BBPositionClosed

SpecBollinger == InitBollinger /\ [][NextBollinger]_vars

BBCalled == drv.pc = "bb" /\ drv.last /= << >>

\* C37, on the call just made: an entry comes only from the REVERSAL state
\* of its side on a close beyond the recorded reversal bar, and leaves the
\* machine IDLE; so do on_position_closed and the hugging-band veto
C37_EntriesFromReversalOnly ==
    BBCalled =>
        LET call == drv.last[1]
        IN  /\ call.signal_type = "ENTRY_LONG" =>
                  /\ call.from = "REVERSAL_LONG" /\ ~call.new_day
                  /\ call.reversal_bar /= << >>
                  /\ call.close > call.reversal_bar[1].high
            /\ call.signal_type = "ENTRY_SHORT" =>
                  /\ call.from = "REVERSAL_SHORT" /\ ~call.new_day
                  /\ call.reversal_bar /= << >>
                  /\ call.close < call.reversal_bar[1].low
            /\ (call.signal_type /= "HOLD" \/ call.vetoed
                \/ call.op = "on_position_closed") => strategy._state = "IDLE"

\* C37, on every step: REVERSAL_LONG is entered from TOUCH_LOWER only and
\* REVERSAL_SHORT from TOUCH_UPPER only, with the bar of the step recorded
BBReversalEnteredFromTouch ==
    /\ (strategy'._state = "REVERSAL_LONG" /\ strategy._state /= "REVERSAL_LONG")
           => strategy._state = "TOUCH_LOWER"
    /\ (strategy'._state = "REVERSAL_SHORT" /\ strategy._state /= "REVERSAL_SHORT")
           => strategy._state = "TOUCH_UPPER"
    /\ strategy'._state \in {"REVERSAL_LONG", "REVERSAL_SHORT"}
           => strategy'._reversal_bar /= << >>

\* C37: BollingerStrategy enters long only from REVERSAL_LONG on a close
\* above the reversal bar's high and short only from REVERSAL_SHORT on a
\* close below its low; REVERSAL_LONG is reached only through TOUCH_LOWER
\* and REVERSAL_SHORT only through TOUCH_UPPER; after an entry, after
\* on_position_closed and after a hugging-band veto the state is IDLE
C37_BollingerStateMachine ==
    [] C37_EntriesFromReversalOnly /\ [][BBReversalEnteredFromTouch]_vars

\* a long entry on a close above the reversal bar's high
C37_Witness ==
    /\ BBCalled
    /\ drv.last[1].signal_type = "ENTRY_LONG"
    /\ drv.last[1].from = "REVERSAL_LONG"
    /\ drv.last[1].close > drv.last[1].reversal_bar[1].high
    /\ strategy._state = "IDLE"

C37_WitnessShort ==
    /\ BBCalled
    /\ drv.last[1].signal_type = "ENTRY_SHORT"
    /\ drv.last[1].from = "REVERSAL_SHORT"
    /\ strategy._state = "IDLE"

\* a veto that takes the machine out of a state other than IDLE
C37_WitnessVeto ==
    BBCalled /\ drv.last[1].vetoed /\ drv.last[1].from /= "IDLE"

\* a call in REVERSAL_LONG that does not break the reversal bar's high
C37_WitnessNoBreak ==
    /\ BBCalled /\ drv.last[1].op = "evaluate"
    /\ drv.last[1].from = "REVERSAL_LONG" /\ ~drv.last[1].new_day
    /\ ~drv.last[1].vetoed
    /\ drv.last[1].close <= drv.last[1].reversal_bar[1].high
    /\ drv.last[1].signal_type = "HOLD"
    /\ strategy._state = "REVERSAL_LONG"

\* ----------------- the fill price of an exit and the bar it is filled in

\* the exits filled in the bar just processed: the calls that record a
\* price for a resolved Close order
ExitFillsOfBar ==
    UNION { RecordedFor(drv.calls, k) :
              k \in CallsOf(drv.calls, "_calculate_fill_price") }

\* C38: in backtest with zero slippage the fill price of every exit lies
\* within [low, high] of the bar in which it is filled, whatever the exit
\* reason, the direction, and the moves of the stop earlier in the bar
C38_ExitFillWithinBar ==
    (drv.pc = "step4" /\ executor.slippage_points = 0) =>
        \A j \in ExitFillsOfBar :
            /\ drv.kbar[1].low <= drv.calls[j].price
            /\ drv.calls[j].price <= drv.kbar[1].high

\* a trailing stop that the bar's own high raised above its low: the leg is
\* filled at the stop, strictly inside the bar
C38_Witness ==
    /\ drv.pc = "step4" /\ executor.slippage_points = 0
    /\ \E j \in ExitFillsOfBar :
          /\ drv.calls[j].op = "on_fill"
          /\ drv.calls[j].detail = ExitReason.TRAILING_STOP
          /\ drv.kbar[1].low < drv.calls[j].price
          /\ drv.calls[j].price < drv.kbar[1].open

\* a gap: the trigger of the filled order lies outside the bar and the
\* order is filled at the open
C38_WitnessGap ==
    /\ drv.pc = "step4" /\ executor.slippage_points = 0
    /\ \E k \in CallsOf(drv.calls, "execute") :
          /\ drv.calls[k].detail = "Close"
          /\ drv.calls[k].price = drv.kbar[1].open
          /\ \E n \in CallsOf(drv.calls, "on_price_update") :
                \E a \in DOMAIN drv.calls[n].returned :
                   LET trigger == Get(drv.calls[n].returned[a].metadata,
                                      "trigger_price", None)
                   IN  /\ trigger /= None
                       /\ (trigger < drv.kbar[1].low
                           \/ trigger > drv.kbar[1].high)

\* exits of each reason a fill can carry, long and short
C38_WitnessReasons ==
    /\ drv.pc = "step4" /\ executor.slippage_points = 0
    /\ \E j \in ExitFillsOfBar :
          /\ drv.calls[j].op = "trades.append"
          /\ drv.calls[j].detail = ExitReason.TAKE_PROFIT
          /\ drv.calls[j].action = "Buy"

C38_WitnessFastStop ==
    /\ drv.pc = "step4" /\ executor.slippage_points = 0
    /\ \E j \in ExitFillsOfBar : drv.calls[j].detail = ExitReason.FAST_STOP

C38_WitnessStopLoss ==
    /\ drv.pc = "step4" /\ executor.slippage_points = 0
    /\ \E j \in ExitFillsOfBar : drv.calls[j].detail = ExitReason.STOP_LOSS

\* ----------------- the quantities opened and closed over a position's life

\* the account of the orders sent so far: the quantity of the Open order,
\* the quantity of it that was filled, the quantity of the filled Close
\* orders and the legs they named, in order
NewCover ==
    [f |-> "cover", order_quantity |-> 0, opened |-> 0, closed |-> 0,
     covered |-> << >>]

\* the account with the execute calls of one pass added
RECURSIVE CoverCalls(_, _, _)
CoverCalls(calls, k, cover) ==
    IF k > Len(calls) THEN cover
    ELSE LET c == calls[k]
             named == IF c.leg_id /= NoLeg THEN << c.leg_id >> ELSE c.leg_ids
             next ==
                 IF c.op /= "execute" THEN cover
                 ELSE IF c.detail = "Open"
                 THEN [cover EXCEPT
                         !.order_quantity = @ + c.quantity,
                         !.opened = IF c.success THEN @ + c.quantity ELSE @]
                 ELSE IF c.detail = "Close" /\ c.success
                 THEN [cover EXCEPT !.closed = @ + c.quantity,
                                    !.covered = @ \o named]
                 ELSE cover
         IN  CoverCalls(calls, k + 1, next)

InitCover ==
    /\ config = DriverConfig
    /\ pm = NewPositionManager(TRUE)
    /\ next_uuid = 1
    /\ drv = NewLive
    /\ executor = NoExecutor
    /\ fn = NewCover
    /\ strategy = NoStrategy

\* the wait between two passes; the pass's orders go into the account
CoverWait ==
    /\ drv.pc = "wait"
    /\ fn' = CoverCalls(drv.calls, 1, fn)
    /\ drv' = [drv EXCEPT !.pc = "loop", !.calls = << >>,
                          !.last_position = << >>, !.kbar_list = << >>,
                          !.error = "none"]
    /\ UNCHANGED <<strategy, config, pm, next_uuid, executor>>

NextCover == LiveMonitor \/ LiveSignal \/ CoverWait \/ LiveStop

SpecCover == InitCover /\ [][NextCover]_vars

\* the account up to and with the pass just made
CoverNow == CoverCalls(drv.calls, 1, fn)

CoveredOnce(cover) ==
    \A a, b \in DOMAIN cover.covered :
        cover.covered[a] = cover.covered[b] => a = b

PositionDropped(cover) == cover.order_quantity > 0 /\ ~has_position(pm)

\* the legs of a held position sum to total_quantity, the quantity of its
\* Open order
LegsMatchOpenOrder(cover) ==
    has_position(pm) =>
        /\ SumQuantity(pm.position[1].legs, DOMAIN pm.position[1].legs)
              = config.total_quantity
        /\ cover.order_quantity = config.total_quantity

\* C39: the legs of a created position sum to total_quantity and to the
\* quantity of its Open order; over any sequence of price updates and
\* fills, failed ones included, each leg is covered by at most one filled
\* Close order, the filled Close quantity never exceeds the opened
\* quantity and equals it when the manager drops the position
C39_ClosedWithinOpened ==
    fn.f = "cover" =>
        \A cover \in {CoverNow} :
            /\ LegsMatchOpenOrder(cover)
            /\ CoveredOnce(cover)
            /\ cover.closed <= cover.opened
            /\ PositionDropped(cover) => cover.closed = cover.opened

\* C39 with the quantity of the Open order in the place of the quantity
\* opened: what the manager keeps whether or not the Open order was filled
C39_ClosedWithinOrdered ==
    fn.f = "cover" =>
        \A cover \in {CoverNow} :
            /\ LegsMatchOpenOrder(cover)
            /\ CoveredOnce(cover)
            /\ cover.closed <= cover.order_quantity
            /\ PositionDropped(cover) => cover.closed = cover.order_quantity
            /\ has_position(pm) =>
                  cover.closed + open_quantity(pm.position[1])
                      = cover.order_quantity

\* a Close order filled for a position whose Open order was not
C39_ClosedWithoutOpen ==
    fn.f = "cover" /\ CoverNow.opened = 0 /\ CoverNow.closed > 0

\* a position opened, closed leg by leg and dropped
C39_DroppedAfterTwoCloses ==
    /\ fn.f = "cover" /\ PositionDropped(CoverNow)
    /\ CoverNow.opened = 2 /\ CoverNow.closed = 2
    /\ Len(CoverNow.covered) = 2
    /\ \E k \in CallsOf(drv.calls, "execute") :
          drv.calls[k].detail = "Close" /\ drv.calls[k].quantity = 1

\* a Close order that failed in an earlier pass and is filled in this one
C39_FilledAfterFailedClose ==
    /\ fn.f = "cover" /\ drv.pc = "wait"
    /\ \E k \in CallsOf(drv.calls, "execute") :
          drv.calls[k].detail = "Close" /\ drv.calls[k].success
    /\ fn.opened = 2 /\ fn.closed = 0 /\ CoverNow.closed = 2

\* ----------------- the deferred entry signal of the backtest driver

\* the bar being processed ran the strategy / filled a deferred entry / ran
\* the exit checks
BarEvaluated == CallsOf(drv.calls, "evaluate") /= {}

BarHadDeferred == CallsOf(drv.calls, "on_signal") /= {}

BarCheckedExits ==
    CallsOf(drv.calls, "check_time_exit") \cup CallsOf(drv.calls, "on_price_update")
        /= {}

\* the state between the steps of the loop: a signal is pending only from
\* Step 3 of the bar that gave it to Step 1 of the next bar, with no position
\* held; the bar that consumes it opens the position
DeferredSignalPending ==
    drv.pc \in {"step1", "step2", "step4", "done", "raised"} =>
        /\ Len(drv.deferred_signal) <= 1
        /\ drv.deferred_signal /= << >> =>
              /\ ~has_position(pm)
              /\ drv.deferred_direction \in {"Buy", "Sell"}
              /\ drv.signal_bar /= None
              /\ drv.pc \in {"step4", "step1", "done"}
              /\ drv.pc = "step4" => drv.signal_bar = drv.i /\ BarEvaluated
              /\ drv.pc \in {"step1", "done"} => drv.signal_bar = drv.i - 1
        /\ (drv.pc = "step2" /\ drv.entry /= << >>) =>
              /\ drv.entry[1].signal_bar = drv.i - 1
              /\ drv.entry[1].opened
              /\ drv.deferred_signal = << >>
              /\ has_position(pm)
        /\ BarEvaluated => ~BarHadDeferred /\ ~BarCheckedExits

\* the step of the loop that takes the elif branch, where evaluate is called
EvaluateStep ==
    /\ drv.pc = "step2" /\ drv'.pc = "step4"
    /\ CallsOf(drv'.calls, "check_time_exit") = {}

\* evaluate is called only on a bar that holds no position and that did not
\* begin with a signal pending
EvaluatedOnFreeBarsOnly ==
    EvaluateStep =>
        /\ ~has_position(pm)
        /\ drv.entry = << >>
        /\ ~BarHadDeferred
        /\ drv.deferred_signal = << >>
        /\ ~has_position(pm')

\* C40: the backtest driver holds at most one deferred entry signal; one is
\* pending only while the manager holds no position, from Step 3 of the bar
\* that gave it to Step 1 of the very next bar; the strategy is not
\* evaluated on a bar that ran the exit checks of a position or that began
\* with a signal pending
C40_DeferredSignal ==
    [] DeferredSignalPending /\ [][EvaluatedOnFreeBarsOnly]_vars

\* a bar whose evaluation gave an entry: the signal is pending at its end
C40_Witness ==
    /\ drv.pc = "step4" /\ drv.deferred_signal /= << >>
    /\ BarEvaluated /\ ~has_position(pm)

\* the next bar consumed the signal and ran the exit checks on the position
\* it opened, and a leg was closed: no evaluation on that bar
C40_WitnessEntryBar ==
    /\ drv.pc = "step4" /\ drv.entry /= << >>
    /\ BarHadDeferred /\ BarCheckedExits /\ ~BarEvaluated
    /\ CallsOf(drv.calls, "on_fill") /= {}
    /\ drv.deferred_signal = << >>

====
